---- MODULE Spec2Model ----
(***************************************************************************)
(* A model of the paint-shop scheduler: the problem instance (PaintShop),  *)
(* the Schedule with its queues and cached costs, the move family          *)
(* (SwapMove, MoveMove, SwapQueuesMove, SwapBatchMove), the move selection  *)
(* strategies, the improvement heuristics and the solution-space indexer.  *)
(*                                                                         *)
(* Conventions.  Order ids, machine ids and queue positions are 0-based as *)
(* in the Python source; TLA+ sequences are 1-based, so position i of a    *)
(* Python list is element i+1 of the sequence that models it.  A Python    *)
(* index pair (machine, position) is the tuple <<machine, position>>, so   *)
(* index[0] of the source is index[1] here.                                *)
(***************************************************************************)
EXTENDS Integers, Sequences, FiniteSets, TLC

VARIABLES
    ps,     \* the PaintShop instance every object refers to (schedule.ps)
    mem,    \* object storage: the queue lists and the cost caches
    last,   \* the Schedule object the caller holds and passes to get_moved
    moved,  \* the Schedule object get_moved returned (last itself while none is pending)
    snap,   \* what the caller could read of last just before the call
    move,   \* the move of the pending result (moved.move), NoMove while none is pending
    indexer, \* a caller of get_ith_solution: the next index, the last result, the results so far
    call,   \* one call of a strategy's try_get_move: its arguments and its result
    run,    \* one run of an improvement heuristic: its arguments, its locals, its run data
    sterling \* the module state of sterling.py and solution_space.py (fact, cache) and one call on it

----------------------------------------------------------------------------
(* Generic helpers *)

Range(s) == {s[i] : i \in DOMAIN s}

min(a, b) == IF a <= b THEN a ELSE b

max(a, b) == IF a >= b THEN a ELSE b

RECURSIVE SeqSum(_)
SeqSum(s) == IF s = <<>> THEN 0 ELSE Head(s) + SeqSum(Tail(s))

RECURSIVE Concat(_)
Concat(ss) == IF ss = <<>> THEN <<>> ELSE Head(ss) \o Concat(Tail(ss))

\* range(n) of Python as a sequence: 0, 1, ..., n-1
range(n) == [i \in 1..n |-> i - 1]

\* itertools.combinations(s, 2): the pairs (s[i], s[j]), i < j, in index order
RECURSIVE combinations2(_)
combinations2(s) ==
    IF Len(s) < 2 THEN <<>>
    ELSE [j \in 1..(Len(s) - 1) |-> <<s[1], s[j + 1]>>] \o combinations2(Tail(s))

\* The value that stands for Python's None where an order id is expected
None == -1

\* The one element of a set of one element
the(S) == CHOOSE x \in S : TRUE

----------------------------------------------------------------------------
(* PaintShop: the problem instance.                                        *)
(* An instance is the content of the three source tables: the orders       *)
(* (surface, color, deadline, penalty), the machines (speed) and the setup *)
(* rows (from colour, to colour, setup time).                              *)

\* Three orders A,A,B on one machine of speed 1; the setup table holds the
\* one row A -> B of 2 (no row for A -> A, nor for B -> A).
PS_OneMachine ==
    [ surface  |-> <<10, 10, 5>>,
      color    |-> <<0, 0, 1>>,
      deadline |-> <<5, 5, 5>>,
      penalty  |-> <<1, 1, 1>>,
      speed    |-> <<1>>,
      setups   |-> << <<0, 1, 2>> >> ]

\* Three orders A,A,B on two machines, the second twice as fast.
PS_TwoMachines ==
    [ surface  |-> <<10, 10, 6>>,
      color    |-> <<0, 0, 1>>,
      deadline |-> <<5, 12, 4>>,
      penalty  |-> <<1, 2, 3>>,
      speed    |-> <<1, 2>>,
      setups   |-> << <<0, 1, 2>>, <<1, 0, 3>> >> ]

\* Five orders A,A,A,B,B on two machines: batches of length 3 and 2.
PS_Batches ==
    [ surface  |-> <<4, 2, 6, 2, 4>>,
      color    |-> <<0, 0, 0, 1, 1>>,
      deadline |-> <<3, 9, 6, 2, 7>>,
      penalty  |-> <<2, 1, 1, 3, 1>>,
      speed    |-> <<1, 2>>,
      setups   |-> << <<0, 1, 3>>, <<1, 0, 1>> >> ]

Instances == {PS_OneMachine, PS_TwoMachines, PS_Batches}

order_ids(p) == range(Len(p.surface))

machine_ids(p) == range(Len(p.speed))

order_count(p) == Len(p.surface)

machine_count(p) == Len(p.speed)

\* first_or_0 of the times of the setup rows from colour c1 to colour c2
first_or_0(p, c1, c2) ==
    LET rows == SelectSeq(p.setups, LAMBDA r : r[1] = c1 /\ r[2] = c2)
    IN  IF Len(rows) = 0 THEN 0 ELSE rows[1][3]

\* get_setup_time without the table lookup: no setup between any two orders
get_setup_time_none(p, order_old, order_new) == 0

get_setup_time(p, order_old, order_new) ==
    IF order_old = None THEN 0
    ELSE IF order_old = order_new THEN 0
    ELSE first_or_0(p, p.color[order_old + 1], p.color[order_new + 1])

\* surface / speed; the instances keep this division exact
get_processing_time(p, order, machine) ==
    p.surface[order + 1] \div p.speed[machine + 1]

get_penalty(p, order, t_done) ==
    p.penalty[order + 1] * max(0, t_done - p.deadline[order + 1])

----------------------------------------------------------------------------
(* Object storage.                                                         *)
(* A Schedule object holds references: queues[m] is the address of the     *)
(* list object of machine m in mem.heap, cache is the address of its cost  *)
(* cache in mem.cache; cost is a number held by the object itself.         *)
(* Reading goes through the references, so two objects that share a list   *)
(* see each other's writes.                                                *)

\* The i-th smallest (i = 1, 2, ...) element of a set of addresses
NthOf(S, i) == CHOOSE a \in S : Cardinality({b \in S : b < a}) = i - 1

\* self.queues[mi], the list of machine mi (schedule[mi, :] is a copy of it)
queue_of(m, s, mi) == m.heap[s.queues[mi + 1]]

\* The queues of a schedule as values (schedule[:, :])
queues_of(m, s) == [i \in DOMAIN s.queues |-> m.heap[s.queues[i]]]

\* Schedule.__getitem__ with an integer position: self.queues[index[0]][index[1]]
getitem(m, s, index) == queue_of(m, s, index[1])[index[2] + 1]

\* Schedule.__getitem__ with a slice lo:hi, which builds a new list
getslice(m, s, mi, lo, hi) == SubSeq(queue_of(m, s, mi), lo + 1, hi)

\* Schedule.__setitem__ with an integer position: the list is written in place
setitem(m, s, index, order) ==
    [m EXCEPT !.heap[s.queues[index[1] + 1]][index[2] + 1] = order]

\* Schedule.__setitem__ with a slice lo:hi: the list is rewritten in place
setslice(m, s, mi, lo, hi, orders) ==
    LET q == queue_of(m, s, mi)
    IN  [m EXCEPT !.heap[s.queues[mi + 1]] =
            SubSeq(q, 1, lo) \o orders \o SubSeq(q, hi + 1, Len(q))]

\* Schedule.__delitem__: self[m, :] = self[m, :i] + self[m, (i+1):]
delitem(m, s, index) ==
    LET mi == index[1]
        i  == index[2]
        n  == Len(queue_of(m, s, mi))
    IN  setslice(m, s, mi, 0, n, getslice(m, s, mi, 0, i) \o getslice(m, s, mi, i + 1, n))

\* Schedule.is_last_in_queue, on the queues as values
is_last_in_queue(Q, index) == index[2] = Len(Q[index[1] + 1]) - 1

\* A copy that is the same object: the queue lists and the cache are shared
get_copy_shared(m, s) == [mem |-> m, obj |-> s]

\* copy.deepcopy(self): new list objects and a new cache with the same contents.
\* The caller holds s alone, so every address s does not use is free.
get_copy(m, s) ==
    LET k     == Len(s.queues)
        freeQ == DOMAIN m.heap \ Range(s.queues)
        freeC == DOMAIN m.cache \ {s.cache}
        newQ  == [i \in 1..k |-> NthOf(freeQ, i)]
        newC  == NthOf(freeC, 1)
        heap2 == [a \in DOMAIN m.heap |->
                    IF a \in Range(newQ)
                    THEN m.heap[s.queues[CHOOSE i \in 1..k : newQ[i] = a]]
                    ELSE m.heap[a]]
    IN  [mem |-> [heap |-> heap2, cache |-> [m.cache EXCEPT ![newC] = m.cache[s.cache]]],
         obj |-> [queues |-> newQ, cache |-> newC, cost |-> s.cost]]

----------------------------------------------------------------------------
(* The cost engine *)

\* Schedule.get_cost_machine: the loop over enumerate(queue) from position i
RECURSIVE get_cost_machine_loop(_, _, _, _, _, _, _)
get_cost_machine_loop(p, q, machine_id, i, t, last_order_id, total_penalty) ==
    IF i > Len(q) THEN total_penalty
    ELSE LET order_id == q[i]
             t2 == t + get_processing_time(p, order_id, machine_id)
                     + get_setup_time(p, last_order_id, order_id)
         IN  get_cost_machine_loop(p, q, machine_id, i + 1, t2, order_id,
                                   total_penalty + get_penalty(p, order_id, t2))

\* Schedule.get_cost_machine: the penalty of one queue computed from position 0
get_cost_machine(p, q, machine_id) ==
    get_cost_machine_loop(p, q, machine_id, 1, 0, None, 0)

\* Schedule.get_cost: the total penalty, every queue computed from position 0
get_cost(p, Q) ==
    SeqSum([i \in DOMAIN Q |-> get_cost_machine(p, Q[i], i - 1)])

\* The cached completion time and cumulative penalty of the positions after
\* the trusted prefix row, one position at a time up to the end of q.
RECURSIVE extend_row(_, _, _, _)
extend_row(p, q, machine_id, row) ==
    IF Len(row) >= Len(q) THEN row
    ELSE LET i        == Len(row) + 1
             order_id == q[i]
             last_order_id == IF i = 1 THEN None ELSE q[i - 1]
             t0       == IF i = 1 THEN 0 ELSE row[i - 1].compl
             c0       == IF i = 1 THEN 0 ELSE row[i - 1].cum
             t        == t0 + get_processing_time(p, order_id, machine_id)
                            + get_setup_time(p, last_order_id, order_id)
         IN  extend_row(p, q, machine_id,
                        Append(row, [compl |-> t, cum |-> c0 + get_penalty(p, order_id, t)]))

\* The queue total a cache row carries: its last cumulative penalty
row_total(row) == IF Len(row) = 0 THEN 0 ELSE row[Len(row)].cum

\* calc_queue_cost_from that also rewrites the rows of the other machines
calc_queue_cost_from_all_rows(p, m, s, machine_id, index) ==
    LET q     == queue_of(m, s, machine_id)
        rows  == m.cache[s.cache]
        row   == extend_row(p, q, machine_id, SubSeq(rows[machine_id + 1], 1, index))
        rows2 == [i \in DOMAIN rows |->
                    IF i = machine_id + 1 THEN row
                    ELSE [j \in DOMAIN rows[i] |-> [rows[i][j] EXCEPT !.compl = @ + 1]]]
    IN  [mem |-> [m EXCEPT !.cache[s.cache] = rows2],
         obj |-> [s EXCEPT !.cost = SeqSum([i \in DOMAIN rows2 |-> row_total(rows2[i])])]]

\* Schedule.calc_queue_cost_from(machine, index): recompute the cache of the
\* machine's queue from position index on, trusting the positions before it,
\* then refresh the schedule's cost as the sum of the queue totals.
calc_queue_cost_from(p, m, s, machine_id, index) ==
    LET q     == queue_of(m, s, machine_id)
        rows  == m.cache[s.cache]
        row   == extend_row(p, q, machine_id, SubSeq(rows[machine_id + 1], 1, index))
        rows2 == [rows EXCEPT ![machine_id + 1] = row]
    IN  [mem |-> [m EXCEPT !.cache[s.cache] = rows2],
         obj |-> [s EXCEPT !.cost = SeqSum([i \in DOMAIN rows2 |-> row_total(rows2[i])])]]

\* Schedule.calc_cost: every queue recomputed from position 0
RECURSIVE calc_cost_loop(_, _, _, _)
calc_cost_loop(p, m, s, machine_id) ==
    IF machine_id >= Len(s.queues) THEN [mem |-> m, obj |-> s]
    ELSE LET r == calc_queue_cost_from(p, m, s, machine_id, 0)
         IN  calc_cost_loop(p, r.mem, r.obj, machine_id + 1)

calc_cost(p, m, s) == calc_cost_loop(p, m, s, 0)

----------------------------------------------------------------------------
(* The move family.  A move is a record [kind, a, b]:                      *)
(*   "swap"  SwapMove        a, b = <<machine, position>>                  *)
(*   "move"  MoveMove        a = source, b = target <<machine, position>>  *)
(*   "qswp"  SwapQueuesMove  a = <<machine_a>>, b = <<machine_b>>          *)
(*   "bswp"  SwapBatchMove   a, b = <<machine, slice.start, slice.stop>>   *)
(* The enumerations read the queues Q of the schedule as values and keep   *)
(* the order in which the source builds its lists.                         *)

NoMove == [kind |-> "none", a |-> <<>>, b |-> <<>>]

\* [(machine_id, queue_index) for machine_id in machine_ids for queue_index in range(len(queue))]
order_indices(p, Q) ==
    Concat([mi \in 1..machine_count(p) |-> [qi \in 1..Len(Q[mi]) |-> <<mi - 1, qi - 1>>]])

SwapMove_get_moves(p, Q) ==
    LET swaps == combinations2(order_indices(p, Q))
    IN  [i \in DOMAIN swaps |-> [kind |-> "swap", a |-> swaps[i][1], b |-> swaps[i][2]]]

\* A filter that also drops the targets n-2 and n+3
MoveMove_excluded_wide(mv) ==
    /\ mv[1][1] = mv[2][1]
    /\ mv[2][2] \in (mv[1][2] - 2)..(mv[1][2] + 3)

\* The filter of MoveMove.get_moves: same machine and target n-1, n+1 or n+2
MoveMove_excluded(mv) ==
    /\ mv[1][1] = mv[2][1]
    /\ \/ mv[2][2] = mv[1][2] - 1
       \/ mv[2][2] = mv[1][2] + 1
       \/ mv[2][2] = mv[1][2] + 2

\* MoveMove.get_moves before its filter: the pairs of positions both ways,
\* then the end-of-queue targets of the orders that are not last in their queue
MoveMove_all_moves(p, Q) ==
    LET ois       == order_indices(p, Q)
        all_swaps == combinations2(ois)
        reversed  == [i \in DOMAIN all_swaps |-> <<all_swaps[i][2], all_swaps[i][1]>>]
        to_end    == Concat([i \in DOMAIN ois |->
                        IF ~is_last_in_queue(Q, ois[i])
                        THEN [mi \in 1..machine_count(p) |-> <<ois[i], <<mi - 1, Len(Q[mi])>> >>]
                        ELSE <<>>])
    IN  all_swaps \o reversed \o to_end

MoveMove_get_moves(p, Q) ==
    LET moves == SelectSeq(MoveMove_all_moves(p, Q), LAMBDA mv : ~MoveMove_excluded(mv))
    IN  [i \in DOMAIN moves |-> [kind |-> "move", a |-> moves[i][1], b |-> moves[i][2]]]

SwapQueuesMove_get_moves(p, Q) ==
    LET pairs == combinations2(machine_ids(p))
    IN  [i \in DOMAIN pairs |-> [kind |-> "qswp", a |-> <<pairs[i][1]>>, b |-> <<pairs[i][2]>>]]

\* The inner while of get_batches: grow the batch while the next order has
\* no setup time from the one before it
RECURSIVE batch_len_loop(_, _, _, _)
batch_len_loop(p, queue, qi, batch_len) ==
    IF /\ qi + batch_len < Len(queue)
       /\ get_setup_time(p, queue[qi + batch_len], queue[qi + batch_len + 1]) = 0
    THEN batch_len_loop(p, queue, qi, batch_len + 1)
    ELSE batch_len

\* The outer while of get_batches for one queue, from position qi
RECURSIVE get_batches_queue(_, _, _, _)
get_batches_queue(p, queue, mi, qi) ==
    IF ~(qi + 1 < Len(queue)) THEN <<>>
    ELSE LET batch_len == batch_len_loop(p, queue, qi, 1)
         IN  IF batch_len = 1
             THEN get_batches_queue(p, queue, mi, qi + batch_len)
             ELSE << <<mi, qi, qi + batch_len>> >>
                    \o get_batches_queue(p, queue, mi, qi + batch_len)

get_batches(p, Q) ==
    Concat([mi \in 1..Len(Q) |-> get_batches_queue(p, Q[mi], mi - 1, 0)])

SwapBatchMove_get_moves(p, Q) ==
    LET permed_batches == combinations2(get_batches(p, Q))
    IN  [i \in DOMAIN permed_batches |->
            [kind |-> "bswp", a |-> permed_batches[i][1], b |-> permed_batches[i][2]]]

\* move.get_moves: move_cache is never written, so the lists are always rebuilt
get_moves(p, Q) ==
    SwapMove_get_moves(p, Q) \o MoveMove_get_moves(p, Q)
        \o SwapQueuesMove_get_moves(p, Q) \o SwapBatchMove_get_moves(p, Q)

----------------------------------------------------------------------------
(* get_moved: each takes the storage m and the schedule object old and     *)
(* gives [mem, obj]: the storage after the call and the new object.        *)

\* SwapMove.get_moved, "Recalc penalties"
SwapMove_recalc(p, m, new, mv) ==
    IF mv.a[1] = mv.b[1]
    THEN calc_queue_cost_from(p, m, new, mv.a[1], min(mv.a[2], mv.b[2]))
    ELSE LET r == calc_queue_cost_from(p, m, new, mv.a[1], mv.a[2])
         IN  calc_queue_cost_from(p, r.mem, r.obj, mv.b[1], mv.b[2])

SwapMove_get_moved(p, m, old, mv) ==
    LET c   == get_copy(m, old)
        new == c.obj
        w1  == setitem(c.mem, new, mv.b, getitem(c.mem, old, mv.a))
        w2  == setitem(w1, new, mv.a, getitem(w1, old, mv.b))
    IN  SwapMove_recalc(p, w2, new, mv)

\* The deletion that forgets that the source moved up by one
MoveMove_del_index_unshifted(mv) == mv.a

\* MoveMove.get_moved, the position deleted after the insertion
MoveMove_del_index(mv) ==
    IF mv.a[1] = mv.b[1] /\ mv.b[2] < mv.a[2]
    THEN <<mv.a[1], mv.a[2] + 1>>
    ELSE mv.a

\* The recalculation that starts at the target position on either machine
MoveMove_recalc_from_target(p, m, new, mv) ==
    IF mv.a[1] = mv.b[1]
    THEN calc_queue_cost_from(p, m, new, mv.a[1], mv.b[2])
    ELSE LET r == calc_queue_cost_from(p, m, new, mv.a[1], mv.a[2])
         IN  calc_queue_cost_from(p, r.mem, r.obj, mv.b[1], mv.b[2])

\* MoveMove.get_moved, "Recalc penalties"
MoveMove_recalc(p, m, new, mv) ==
    IF mv.a[1] = mv.b[1]
    THEN calc_queue_cost_from(p, m, new, mv.a[1], min(mv.a[2], mv.b[2]))
    ELSE LET r == calc_queue_cost_from(p, m, new, mv.a[1], mv.a[2])
         IN  calc_queue_cost_from(p, r.mem, r.obj, mv.b[1], mv.b[2])

MoveMove_get_moved(p, m, old, mv) ==
    LET c   == get_copy(m, old)
        new == c.obj
        w1  == setslice(c.mem, new, mv.b[1], mv.b[2], mv.b[2], <<getitem(c.mem, old, mv.a)>>)
        w2  == delitem(w1, new, MoveMove_del_index(mv))
    IN  MoveMove_recalc(p, w2, new, mv)

SwapQueuesMove_get_moved(p, m, old, mv) ==
    LET c         == get_copy(m, old)
        new       == c.obj
        machine_a == mv.a[1]
        machine_b == mv.b[1]
        len(w, s, mi) == Len(queue_of(w, s, mi))
        w1  == setslice(c.mem, new, machine_a, 0, len(c.mem, new, machine_a),
                        getslice(c.mem, old, machine_b, 0, len(c.mem, old, machine_b)))
        w2  == setslice(w1, new, machine_b, 0, len(w1, new, machine_b),
                        getslice(w1, old, machine_a, 0, len(w1, old, machine_a)))
        r   == calc_queue_cost_from(p, w2, new, machine_a, 0)
    IN  calc_queue_cost_from(p, r.mem, r.obj, machine_b, 0)

\* SwapBatchMove.get_moved writing the earlier slice of one queue first
SwapBatchMove_get_moved_front_first(p, m, old, mv) ==
    LET c   == get_copy(m, old)
        new == c.obj
        m1  == mv.a[1]
        lo1 == mv.a[2]
        hi1 == mv.a[3]
        m2  == mv.b[1]
        lo2 == mv.b[2]
        hi2 == mv.b[3]
    IN  IF m1 = m2
        THEN LET w1 == setslice(c.mem, new, m1, lo1, hi1, getslice(c.mem, old, m1, lo2, hi2))
                 w2 == setslice(w1, new, m1, lo2, hi2, getslice(w1, old, m1, lo1, hi1))
             IN  calc_queue_cost_from(p, w2, new, m1, lo1)
        ELSE LET w1 == setslice(c.mem, new, m1, lo1, hi1, getslice(c.mem, old, m2, lo2, hi2))
                 w2 == setslice(w1, new, m2, lo2, hi2, getslice(w1, old, m1, lo1, hi1))
                 r  == calc_queue_cost_from(p, w2, new, m1, lo1)
             IN  calc_queue_cost_from(p, r.mem, r.obj, m2, lo2)

SwapBatchMove_get_moved(p, m, old, mv) ==
    LET c   == get_copy(m, old)
        new == c.obj
        m1  == mv.a[1]
        lo1 == mv.a[2]
        hi1 == mv.a[3]
        m2  == mv.b[1]
        lo2 == mv.b[2]
        hi2 == mv.b[3]
    IN  IF m1 = m2
        THEN IF lo1 > lo2
             THEN LET w1 == setslice(c.mem, new, m1, lo1, hi1, getslice(c.mem, old, m1, lo2, hi2))
                      w2 == setslice(w1, new, m1, lo2, hi2, getslice(w1, old, m1, lo1, hi1))
                  IN  calc_queue_cost_from(p, w2, new, m1, lo2)
             ELSE LET w1 == setslice(c.mem, new, m1, lo2, hi2, getslice(c.mem, old, m1, lo1, hi1))
                      w2 == setslice(w1, new, m1, lo1, hi1, getslice(w1, old, m1, lo2, hi2))
                  IN  calc_queue_cost_from(p, w2, new, m1, lo1)
        ELSE LET w1 == setslice(c.mem, new, m1, lo1, hi1, getslice(c.mem, old, m2, lo2, hi2))
                 w2 == setslice(w1, new, m2, lo2, hi2, getslice(w1, old, m1, lo1, hi1))
                 r  == calc_queue_cost_from(p, w2, new, m1, lo1)
             IN  calc_queue_cost_from(p, r.mem, r.obj, m2, lo2)

\* move.get_moved(schedule), dispatched on the class of the move
get_moved(p, m, old, mv) ==
    CASE mv.kind = "swap" -> SwapMove_get_moved(p, m, old, mv)
      [] mv.kind = "move" -> MoveMove_get_moved(p, m, old, mv)
      [] mv.kind = "qswp" -> SwapQueuesMove_get_moved(p, m, old, mv)
      [] mv.kind = "bswp" -> SwapBatchMove_get_moved(p, m, old, mv)

----------------------------------------------------------------------------
(* Construction *)

\* Schedule(): one empty queue per machine, nothing cached.  The storage has
\* room for two schedules: the one a caller holds and the copy a move makes.
new_schedule(p) ==
    LET k == machine_count(p)
    IN  [mem |-> [heap  |-> [a \in 1..(2 * k) |-> <<>>],
                  cache |-> [a \in 1..2 |-> [i \in 1..k |-> <<>>]]],
         obj |-> [queues |-> [i \in 1..k |-> i], cache |-> 1, cost |-> 0]]

\* sorted(s, key = ...) for a key given as a function: stable
RECURSIVE sorted(_, _)
sorted(s, key) ==
    IF s = <<>> THEN <<>>
    ELSE LET rest == sorted(Tail(s), key)
             x    == Head(s)
             n    == Cardinality({j \in DOMAIN rest : key[rest[j]] < key[x]})
         IN  SubSeq(rest, 1, n) \o <<x>> \o SubSeq(rest, n + 1, Len(rest))

\* Simple.get_schedule: the loop over the orders sorted by deadline
RECURSIVE Simple_loop(_, _, _, _)
Simple_loop(p, m, schedule, orders) ==
    IF orders = <<>> THEN [mem |-> m, obj |-> schedule]
    ELSE LET order_id == Head(orders)
             k        == machine_count(p)
             key      == [i \in 0..(k - 1) |-> Len(queue_of(m, schedule, i)) * k + i]
             machine_id_next == sorted(machine_ids(p), key)[1]
             queue_len == Len(queue_of(m, schedule, machine_id_next))
             w  == setslice(m, schedule, machine_id_next, queue_len, queue_len, <<order_id>>)
             r  == calc_queue_cost_from(p, w, schedule, machine_id_next,
                                        Len(queue_of(w, schedule, machine_id_next)) - 1)
         IN  Simple_loop(p, r.mem, r.obj, Tail(orders))

Simple_get_schedule(p) ==
    LET s == new_schedule(p)
        deadline == [o \in 0..(order_count(p) - 1) |-> p.deadline[o + 1]]
    IN  Simple_loop(p, s.mem, s.obj, sorted(order_ids(p), deadline))

----------------------------------------------------------------------------
(* The moves applied one after another to the schedule a caller holds:     *)
(* the call moved = mv.get_moved(last), then the caller's assignment          *)
(* last = moved (run_data.last = moved, schedule = moved_schedule).           *)

\* What a caller can read of a schedule: the queues, the cached costs, the cost
observe(m, s) == [queues |-> queues_of(m, s), cache |-> m.cache[s.cache], cost |-> s.cost]

\* No caller of the solution-space indexer
NoIndexer == [i |-> 0, ith |-> <<>>, seen |-> {}]

\* A schedule as the value of its queues and the cost it carries
NoneSchedule == [queues |-> <<>>, cost |-> -1]

\* The result of try_get_move: the pair it returns, or the exception it raises
NoneNone == [raised |-> "", move |-> NoMove, moved |-> NoneSchedule]

\* No call of try_get_move
NoCall ==
    [strategy |-> "", criteria |-> [kind |-> "None", cost |-> 0, taboo |-> {}],
     schedule |-> NoneSchedule, done |-> FALSE, result |-> NoneNone]

\* No run of an improvement heuristic
NoRun == [heuristic |-> ""]

\* sterling.py and solution_space.py as imported: fact = [1], both caches empty, no call made
NoSterling ==
    [fact |-> <<1>>, cache |-> <<>>, rows |-> <<>>,
     fn |-> "", n |-> 0, k |-> 0, result |-> 0, raised |-> ""]

Init ==
    /\ ps \in Instances
    /\ indexer = NoIndexer
    /\ call = NoCall
    /\ run = NoRun
    /\ sterling = NoSterling
    /\ LET s == Simple_get_schedule(ps)
       IN  /\ mem = s.mem
           /\ last = s.obj
           /\ moved = s.obj
           /\ snap = observe(s.mem, s.obj)
    /\ move = NoMove

\* moved = mv.get_moved(last)
Apply(mv) ==
    LET r == get_moved(ps, mem, last, mv)
    IN  /\ move = NoMove
        /\ mem' = r.mem
        /\ moved' = r.obj
        /\ snap' = observe(mem, last)
        /\ move' = mv
        /\ UNCHANGED <<ps, last, indexer, call, run, sterling>>

ApplySwap ==
    \E mv \in Range(SwapMove_get_moves(ps, queues_of(mem, last))) : Apply(mv)

ApplyRelocate ==
    \E mv \in Range(MoveMove_get_moves(ps, queues_of(mem, last))) : Apply(mv)

ApplySwapQueues ==
    \E mv \in Range(SwapQueuesMove_get_moves(ps, queues_of(mem, last))) : Apply(mv)

ApplySwapBatch ==
    \E mv \in Range(SwapBatchMove_get_moves(ps, queues_of(mem, last))) : Apply(mv)

\* The storage with every object that s does not use collected
collect(m, s) ==
    [heap  |-> [a \in DOMAIN m.heap |-> IF a \in Range(s.queues) THEN m.heap[a] ELSE <<>>],
     cache |-> [a \in DOMAIN m.cache |->
                  IF a = s.cache THEN m.cache[a] ELSE [i \in DOMAIN s.queues |-> <<>>]]]

\* last = moved: the caller keeps the result; the schedule it held is unreferenced
Commit ==
    /\ move # NoMove
    /\ last' = moved
    /\ mem' = collect(mem, moved)
    /\ snap' = observe(mem, moved)
    /\ move' = NoMove
    /\ UNCHANGED <<ps, moved, indexer, call, run, sterling>>

Next == ApplySwap \/ ApplyRelocate \/ ApplySwapQueues \/ ApplySwapBatch \/ Commit

vars == <<ps, mem, last, moved, snap, move, indexer, call, run, sterling>>

Spec == Init /\ [][Next]_vars

----------------------------------------------------------------------------
(* Properties of the moves *)

\* Schedule.is_feasible: every order id is in exactly one queue, exactly once
is_feasible(p, Q) ==
    LET all == Concat(Q)
    IN  /\ Len(all) = order_count(p)
        /\ \A o \in Range(order_ids(p)) : Cardinality({i \in DOMAIN all : all[i] = o}) = 1

\* C1: every schedule an enumerated Swap, Relocate, SwapQueues or SwapBatch
\* move returns for a feasible schedule is feasible, so every schedule reached
\* by a sequence of enumerated moves holds every order id exactly once.
C1_MovesKeepFeasible ==
    /\ is_feasible(ps, queues_of(mem, last))
    /\ is_feasible(ps, queues_of(mem, moved))

\* A relocation towards the front of the same queue has produced a schedule
C1_Witness ==
    /\ move.kind = "move"
    /\ move.a[1] = move.b[1]
    /\ move.b[2] < move.a[2]
    /\ queues_of(mem, moved) # snap.queues
    /\ is_feasible(ps, queues_of(mem, moved))

\* C2: the total cost a schedule carries after any sequence of enumerated
\* moves, maintained by recomputing the touched queues from the lowest
\* disturbed index, equals the cost of recomputing every queue from position 0.
C2_IncrementalCostIsFullCost ==
    /\ last.cost = get_cost(ps, queues_of(mem, last))
    /\ moved.cost = get_cost(ps, queues_of(mem, moved))

\* A relocation took the last order of a queue to another machine, so the
\* source queue was recomputed from an index equal to its new length
C2_Witness ==
    /\ move.kind = "move"
    /\ move.a[1] # move.b[1]
    /\ move.a[2] = Len(queue_of(mem, moved, move.a[1]))
    /\ move.a[2] > 0
    /\ moved.cost # snap.cost
    /\ moved.cost = get_cost(ps, queues_of(mem, moved))

\* C3: get_moved leaves the schedule it was given unchanged - its queues and
\* cached costs read as before the call - and the result shares no queue
\* list and no cache with it.
C3_OriginalUnchanged ==
    move # NoMove =>
        /\ observe(mem, last) = snap
        /\ Range(last.queues) \cap Range(moved.queues) = {}
        /\ last.cache # moved.cache

\* A queue swap returned a schedule with other queues and another cost
C3_Witness ==
    /\ move.kind = "qswp"
    /\ queues_of(mem, moved) # snap.queues
    /\ moved.cost # snap.cost
    /\ observe(mem, last) = snap

\* C9: on the instance A,A,B / 10,10,5 / deadlines 5 / penalty 1 with one
\* machine of speed 1, setup(A,B) = 2 and setup(A,A) = 0, the queue [0,1,2]
\* costs 42 and the swap of positions 1 and 2 gives [0,2,1] with cost 39.
C9_Scenario ==
    ps = PS_OneMachine =>
        /\ queues_of(mem, last) = << <<0, 1, 2>> >> =>
              /\ last.cost = 42
              /\ get_cost(ps, queues_of(mem, last)) = 42
        /\ (move = [kind |-> "swap", a |-> <<0, 1>>, b |-> <<0, 2>>]
              /\ snap.queues = << <<0, 1, 2>> >>) =>
              /\ queues_of(mem, moved) = << <<0, 2, 1>> >>
              /\ moved.cost = 39
              /\ get_cost(ps, queues_of(mem, moved)) = 39

\* The swap has been applied to [0,1,2], whose cost was 42
C9_Witness ==
    /\ ps = PS_OneMachine
    /\ move = [kind |-> "swap", a |-> <<0, 1>>, b |-> <<0, 2>>]
    /\ snap.queues = << <<0, 1, 2>> >>
    /\ snap.cost = 42
    /\ moved.cost = 39

\* C18: the schedule an enumerated relocation ((ma, ia), (mb, ib)) returns
\* has the order x that was at (ma, ia) on machine mb only, directly before
\* the order that was at (mb, ib), or last when ib was the length of that
\* queue; every other order is on its machine in the same relative order,
\* also when the source index has shifted (ma = mb, ib < ia).
C18_RelocatePlacesBeforeTarget ==
    move.kind = "move" =>
        \A old \in {snap.queues}, new \in {queues_of(mem, moved)} :
            LET x  == old[move.a[1] + 1][move.a[2] + 1]
                mb == move.b[1] + 1
                at == {j \in DOMAIN new[mb] : new[mb][j] = x}
            IN  /\ \A m \in DOMAIN old :
                      SelectSeq(new[m], LAMBDA o : o # x) = SelectSeq(old[m], LAMBDA o : o # x)
                /\ \A m \in DOMAIN new : m # mb => x \notin Range(new[m])
                /\ Cardinality(at) = 1
                /\ \A j \in at :
                      IF move.b[2] < Len(old[mb])
                      THEN j < Len(new[mb]) /\ new[mb][j + 1] = old[mb][move.b[2] + 1]
                      ELSE j = Len(new[mb])

\* An order has been relocated towards the front of its own queue, before an
\* order that is not its neighbour
C18_Witness ==
    /\ move.kind = "move"
    /\ move.a[1] = move.b[1]
    /\ move.b[2] < move.a[2] - 1
    /\ Len(snap.queues[move.a[1] + 1]) >= 4
    /\ queues_of(mem, moved)[move.b[1] + 1][move.b[2] + 1]
          = snap.queues[move.a[1] + 1][move.a[2] + 1]

\* C19: the relocations enumerated for a schedule hold, for every order
\* position (ma, ia), every other machine mb and every ib from 0 up to the
\* length of the queue of mb, the move ((ma, ia), (mb, ib)): also for an
\* order that is last in its queue and for a queue that is empty.
C19_RelocateToEveryOtherQueuePosition ==
    \A Q \in {queues_of(mem, last)} :
        \A moves \in {Range(MoveMove_get_moves(ps, Q))} :
            \A ma \in DOMAIN Q, mb \in DOMAIN Q :
                \A ia \in 0..(Len(Q[ma]) - 1), ib \in 0..Len(Q[mb]) :
                    ma # mb =>
                        [kind |-> "move", a |-> <<ma - 1, ia>>, b |-> <<mb - 1, ib>>] \in moves

\* The queues a move gives for the schedule the caller holds
queues_moved(mv) ==
    the({queues_of(r.mem, r.obj) : r \in {get_moved(ps, mem, last, mv)}})

\* C20: a relocation that the filter of MoveMove.get_moves drops (same
\* machine, target = source - 1, source + 1 or source + 2) would give the
\* unchanged schedule or the result of an enumerated swap of two neighbours;
\* so the schedules one enumerated swap or relocation away are those one swap
\* or unfiltered relocation away, the schedule itself left out.
C20_ExcludedRelocationsAreSwaps ==
    move = NoMove =>
    \A Q \in {queues_of(mem, last)} :
      \A swapped \in {[sw \in Range(SwapMove_get_moves(ps, Q)) |-> queues_moved(sw)]} :
        \A all \in {MoveMove_all_moves(ps, Q)} :
          /\ \A j \in DOMAIN all :
                MoveMove_excluded(all[j]) =>
                    \A R \in {queues_moved([kind |-> "move", a |-> all[j][1], b |-> all[j][2]])} :
                        \/ R = Q
                        \/ \E sw \in DOMAIN swapped :
                              /\ sw.a[1] = sw.b[1]
                              /\ sw.b[2] = sw.a[2] + 1
                              /\ swapped[sw] = R
          /\ Range(swapped) \cup {queues_moved(mv) : mv \in Range(MoveMove_get_moves(ps, Q))}
                = (Range(swapped)
                     \cup {queues_moved([kind |-> "move", a |-> all[j][1], b |-> all[j][2]])
                             : j \in DOMAIN all}) \ {Q}

\* The caller holds a schedule for which the filter drops a relocation that
\* does nothing and one that is the swap of two neighbours
C20_Witness ==
    /\ move = NoMove
    /\ \A Q \in {queues_of(mem, last)} :
        \A all \in {MoveMove_all_moves(ps, Q)} :
            /\ Len(all) > 0
            /\ \E j \in DOMAIN all :
                  /\ MoveMove_excluded(all[j])
                  /\ queues_moved([kind |-> "move", a |-> all[j][1], b |-> all[j][2]]) = Q
            /\ \E j \in DOMAIN all :
                  /\ MoveMove_excluded(all[j])
                  /\ all[j][2][2] = all[j][1][2] + 2
                  /\ queues_moved([kind |-> "move", a |-> all[j][1], b |-> all[j][2]]) # Q

\* The queues an exchange of segment A = lo1:hi1 of machine m1 with segment
\* B = lo2:hi2 of machine m2 has to give
segments_exchanged(Q, mv) ==
    LET m1 == mv.a[1] + 1
        m2 == mv.b[1] + 1
        A  == SubSeq(Q[m1], mv.a[2] + 1, mv.a[3])
        B  == SubSeq(Q[m2], mv.b[2] + 1, mv.b[3])
    IN  [mi \in DOMAIN Q |->
            IF m1 = m2 /\ mi = m1
            THEN SubSeq(Q[mi], 1, mv.a[2]) \o B \o SubSeq(Q[mi], mv.a[3] + 1, mv.b[2])
                   \o A \o SubSeq(Q[mi], mv.b[3] + 1, Len(Q[mi]))
            ELSE IF mi = m1
            THEN SubSeq(Q[mi], 1, mv.a[2]) \o B \o SubSeq(Q[mi], mv.a[3] + 1, Len(Q[mi]))
            ELSE IF mi = m2
            THEN SubSeq(Q[mi], 1, mv.b[2]) \o A \o SubSeq(Q[mi], mv.b[3] + 1, Len(Q[mi]))
            ELSE Q[mi]]

\* C21: every enumerated SwapBatch move exchanges exactly its two segments:
\* on different machines each queue is its prefix, the other batch, its
\* suffix; on one machine, the first batch lying before the second, the queue
\* is prefix, second batch, middle, first batch, suffix, also when the two
\* batches differ in length; every other order stays where it was.
C21_SwapBatchExchangesSegments ==
    move.kind = "bswp" =>
        /\ move.a[1] = move.b[1] => move.a[3] <= move.b[2]
        /\ queues_of(mem, moved) = segments_exchanged(snap.queues, move)

\* Two batches of different lengths in one queue have been exchanged
C21_Witness ==
    /\ move.kind = "bswp"
    /\ move.a[1] = move.b[1]
    /\ move.a[3] - move.a[2] # move.b[3] - move.b[2]
    /\ queues_of(mem, moved) # snap.queues

\* Two batches of different lengths in different queues have been exchanged
C21_WitnessTwoMachines ==
    /\ move.kind = "bswp"
    /\ move.a[1] # move.b[1]
    /\ move.a[3] - move.a[2] # move.b[3] - move.b[2]

\* The slices lo:hi of one queue that are runs of at least two orders with no
\* setup time between neighbours and cannot be extended to the left or right
maximal_runs(p, queue, mi) ==
    { b \in {mi} \X (0..Len(queue)) \X (0..Len(queue)) :
        /\ b[3] - b[2] >= 2
        /\ \A i \in (b[2] + 1)..(b[3] - 1) : get_setup_time(p, queue[i], queue[i + 1]) = 0
        /\ b[2] > 0 => get_setup_time(p, queue[b[2]], queue[b[2] + 1]) # 0
        /\ b[3] < Len(queue) => get_setup_time(p, queue[b[3]], queue[b[3] + 1]) # 0 }

\* get_batches returns every maximal run once, and the runs do not overlap
C22_BatchesAreMaximalRuns ==
    move = NoMove =>
        \A Q \in {queues_of(mem, last)} :
            \A batches \in {get_batches(ps, Q)} :
                /\ Range(batches) = UNION {maximal_runs(ps, Q[mi], mi - 1) : mi \in DOMAIN Q}
                /\ Cardinality(Range(batches)) = Len(batches)
                /\ \A i, j \in DOMAIN batches :
                      (i # j /\ batches[i][1] = batches[j][1]) =>
                          (batches[i][3] <= batches[j][2] \/ batches[j][3] <= batches[i][2])

\* C22: get_batches returns exactly the maximal runs of at least two
\* consecutive orders of one queue with zero setup time between neighbours,
\* pairwise disjoint, each once, and every batch holds orders of one colour.
C22_BatchesAreSameColorRuns ==
    /\ C22_BatchesAreMaximalRuns
    /\ move = NoMove =>
          \A Q \in {queues_of(mem, last)} :
              \A b \in Range(get_batches(ps, Q)) :
                  \A i, j \in (b[2] + 1)..b[3] :
                      ps.color[Q[b[1] + 1][i] + 1] = ps.color[Q[b[1] + 1][j] + 1]

\* The number of leading positions at which two queues hold the same orders
RECURSIVE common_prefix(_, _, _)
common_prefix(q1, q2, i) ==
    IF i < Len(q1) /\ i < Len(q2) /\ q1[i + 1] = q2[i + 1]
    THEN common_prefix(q1, q2, i + 1)
    ELSE i

\* The machines a move names
touched(mv) == {mv.a[1], mv.b[1]}

----------------------------------------------------------------------------
(* The solution space: counting (sterling.py) and indexing                 *)
(* (solution_space.py) the ways to give n orders to k machines.            *)

\* fact[n] of the module-level list, which nCr extends on demand
RECURSIVE fact(_)
fact(n) == IF n <= 0 THEN 1 ELSE fact(n - 1) * n

\* nCr for 0 <= k <= n.  (For k > n the source reads fact[n-k] at a negative
\* index; the quotient is then 0 for every n > 0.)
nCr(n, k) == IF 0 <= k /\ k <= n THEN fact(n) \div (fact(k) * fact(n - k)) ELSE 0

\* count_part: the number of ways to split n items into k non-empty subsets
RECURSIVE count_part(_, _), count_part_loop(_, _, _, _)
count_part_loop(n, k, y, t) ==
    IF y >= n - k + 1 THEN t
    ELSE count_part_loop(n, k, y + 1, t + count_part(n - 1 - y, k - 1) * nCr(n - 1, y))

count_part(n, k) == IF k = 1 THEN 1 ELSE count_part_loop(n, k, 0, 0)

\* The for loop of ith_subset: <<x, i>> when the loop is left
RECURSIVE ith_subset_loop(_, _, _, _)
ith_subset_loop(n, k, i, x) ==
    LET extra == nCr(n - x - 1, k - 1)
    IN  IF i < extra THEN <<x, i>>
        ELSE IF x = n - 1 THEN <<x, i - extra>>
        ELSE ith_subset_loop(n, k, i - extra, x + 1)

\* The subset a caller gets whatever the index: the first k items
ith_subset_first(A, k, i) == SubSeq(A, 1, k)

\* ith_subset: the first subset of the i-th k-subset partition of A
RECURSIVE ith_subset(_, _, _)
ith_subset(A, k, i) ==
    LET n == Len(A)
    IN  IF n = k THEN A
        ELSE IF k = 0 THEN <<>>
        ELSE LET r == ith_subset_loop(n, k, i, 0)
                 x == r[1]
             IN  <<A[x + 1]>> \o ith_subset(SubSeq(A, x + 2, n), k - 1, r[2])

\* The for loop of gen_part: <<y, i>> when the loop is left
RECURSIVE gen_part_loop(_, _, _, _)
gen_part_loop(n, k, i, y) ==
    LET extra == count_part(n - 1 - y, k - 1) * nCr(n - 1, y)
    IN  IF i < extra THEN <<y, i>>
        ELSE IF y = n - k THEN <<y, i - extra>>
        ELSE gen_part_loop(n, k, i - extra, y + 1)

\* gen_part: the i-th partition of A into k non-empty lists
RECURSIVE gen_part(_, _, _)
gen_part(A, k, i) ==
    IF k = 1 THEN <<A>>
    ELSE LET n == Len(A)
             r == gen_part_loop(n, k, i, 0)
             y == r[1]
             count_partition == r[2] \div nCr(n - 1, y)
             count_subset    == r[2] % nCr(n - 1, y)
             subset == <<A[1]>> \o ith_subset(Tail(A), y, count_subset)
             rest   == SelectSeq(A, LAMBDA a : a \notin Range(subset))
         IN  <<subset>> \o gen_part(rest, k - 1, count_partition)

factorial(n) == fact(n)

get_distinct_permutation_count(n, n_dupes) == factorial(n) \div factorial(n_dupes)

\* update_cache: the rows (cumulative count, e, n_parts, n_perms), e = 0..k-1
RECURSIVE update_cache_loop(_, _, _, _)
update_cache_loop(n, k, e, cumulative_count) ==
    IF e >= k THEN <<>>
    ELSE LET n_parts == count_part(n, k - e)
             n_perms == get_distinct_permutation_count(k, e)
             cum     == cumulative_count + n_parts * n_perms
         IN  << [cum |-> cum, e |-> e, n_parts |-> n_parts, n_perms |-> n_perms] >>
                 \o update_cache_loop(n, k, e + 1, cum)

update_cache(n, k) == update_cache_loop(n, k, 0, 0)

get_solution_space_size(p) ==
    LET rows == update_cache(order_count(p), machine_count(p))
    IN  rows[Len(rows)].cum

\* The order of Python lists of integers: a < b
RECURSIVE list_lt(_, _)
list_lt(a, b) ==
    IF b = <<>> THEN FALSE
    ELSE IF a = <<>> THEN TRUE
    ELSE IF a[1] # b[1] THEN a[1] < b[1]
    ELSE list_lt(Tail(a), Tail(b))

\* sorted(s) for a list of lists
RECURSIVE sorted_lists(_)
sorted_lists(s) ==
    IF s = <<>> THEN <<>>
    ELSE LET rest == sorted_lists(Tail(s))
             x    == Head(s)
             n    == Cardinality({j \in DOMAIN rest : list_lt(rest[j], x)})
         IN  SubSeq(rest, 1, n) \o <<x>> \o SubSeq(rest, n + 1, Len(rest))

\* The distinct permutations of a sorted list in lexicographic order
RECURSIVE distinct_permutations_sorted(_)
distinct_permutations_sorted(items) ==
    IF items = <<>> THEN << <<>> >>
    ELSE LET without(q) == SubSeq(items, 1, q - 1) \o SubSeq(items, q + 1, Len(items))
             from(q) ==
                 IF q > 1 /\ items[q] = items[q - 1] THEN <<>>
                 ELSE LET rest == distinct_permutations_sorted(without(q))
                      IN  [j \in DOMAIN rest |-> <<items[q]>> \o rest[j]]
         IN  Concat([q \in DOMAIN items |-> from(q)])

\* more_itertools.distinct_permutations: sorts, then yields in that order
distinct_permutations(iterable) == distinct_permutations_sorted(sorted_lists(iterable))

\* The for loop of get_ith_solution over the cache rows
RECURSIVE get_ith_solution_loop(_, _, _, _)
get_ith_solution_loop(p, i, rows, last_s_count_cum) ==
    IF rows = <<>> THEN None
    ELSE LET row == Head(rows)
         IN  IF i >= row.cum THEN get_ith_solution_loop(p, i, Tail(rows), row.cum)
             ELSE LET i_given_e == i - last_s_count_cum
                      i_part    == i_given_e \div row.n_perms
                      i_perm    == i_given_e % row.n_perms
                      e_parts   == [j \in 1..row.e |-> <<>>]
                      part      == e_parts \o gen_part(order_ids(p), machine_count(p) - row.e, i_part)
                  IN  distinct_permutations(part)[i_perm + 1]

get_ith_solution(p, i) ==
    get_ith_solution_loop(p, i, update_cache(order_count(p), machine_count(p)), 0)

----------------------------------------------------------------------------
(* A caller that asks for the solutions 0, 1, ..., N-1 of an instance and  *)
(* collects them in a set.                                                 *)

MaxOrders == 4

MaxMachines == 3

\* An instance of n orders and k machines (the indexer reads the counts and the ids only)
Shop(n, k) ==
    [ surface  |-> [o \in 1..n |-> 1],
      color    |-> [o \in 1..n |-> 0],
      deadline |-> [o \in 1..n |-> 1],
      penalty  |-> [o \in 1..n |-> 1],
      speed    |-> [m \in 1..k |-> 1],
      setups   |-> <<>> ]

NoSchedule == [queues |-> <<>>, cache |-> 0, cost |-> 0]

IndexerInit ==
    /\ ps \in {Shop(n, k) : n \in 1..MaxOrders, k \in 1..MaxMachines}
    /\ indexer = NoIndexer
    /\ mem = [heap |-> <<>>, cache |-> <<>>]
    /\ last = NoSchedule
    /\ moved = NoSchedule
    /\ snap = [queues |-> <<>>, cache |-> <<>>, cost |-> 0]
    /\ move = NoMove
    /\ call = NoCall
    /\ run = NoRun
    /\ sterling = NoSterling

\* perm = get_ith_solution(ps, i) for the next i of range(N)
IthSolution ==
    /\ indexer.i < get_solution_space_size(ps)
    /\ LET perm == get_ith_solution(ps, indexer.i)
       IN  indexer' = [i |-> indexer.i + 1, ith |-> perm, seen |-> indexer.seen \cup {perm}]
    /\ UNCHANGED <<ps, mem, last, moved, snap, move, call, run, sterling>>

IndexerNext == IthSolution

SpecIndexer == IndexerInit /\ [][IndexerNext]_vars

\* C4: get_ith_solution is injective on [0, N), N = get_solution_space_size:
\* the first i indices give i different assignments (N of them once the range
\* is exhausted), each of exactly k queues that hold every order id once.
C4_IthSolutionInjective ==
    /\ Cardinality(indexer.seen) = indexer.i
    /\ \A Q \in indexer.seen :
          /\ Len(Q) = machine_count(ps)
          /\ is_feasible(ps, Q)

\* All N = 16 indices of the instance n = 4, k = 2 have been asked for
C4_Witness ==
    /\ order_count(ps) = 4
    /\ machine_count(ps) = 2
    /\ indexer.i = get_solution_space_size(ps)
    /\ indexer.i = 16
    /\ Cardinality(indexer.seen) = 16

\* Brute force: every way to distribute the items over k labelled ordered
\* lists, found by inserting the items one by one at every position
RECURSIVE distribute(_, _)
distribute(items, k) ==
    IF items = <<>> THEN {[m \in 1..k |-> <<>>]}
    ELSE LET x    == items[Len(items)]
             prev == distribute(SubSeq(items, 1, Len(items) - 1), k)
         IN  UNION { UNION { { [Q EXCEPT ![m] = SubSeq(Q[m], 1, pos) \o <<x>>
                                                  \o SubSeq(Q[m], pos + 1, Len(Q[m]))]
                                 : pos \in 0..Len(Q[m]) }
                             : m \in 1..k }
                     : Q \in prev }

\* C10: the solution-space count with empty queues allowed equals the
\* brute-force number of ways to distribute the n orders over k labelled
\* ordered lists that may be empty.
C10_CountIsBruteForce ==
    indexer.i = 0 =>
        get_solution_space_size(ps)
            = Cardinality(distribute(order_ids(ps), machine_count(ps)))

----------------------------------------------------------------------------
(* A caller that asks get_ith_solution for one index of either sign, in    *)
(* [0, N) or outside.                                                      *)

\* get_ith_solution(p, i) with its outcome: the permutation it returns, the
\* None it returns when the loop over the cache rows ends without a return,
\* or the exception of gen_part, whose loop variable y is unbound when
\* range(0, n-k+1) is empty
get_ith_solution_call(p, i) ==
    LET rows  == update_cache(order_count(p), machine_count(p))
        found == {j \in DOMAIN rows : i < rows[j].cum}
        k     == machine_count(p) - rows[CHOOSE j \in found : \A j2 \in found : j <= j2].e
    IN  IF found = {}
          THEN [raised |-> "", returned |-> "None", perm |-> <<>>]
        ELSE IF k # 1 /\ order_count(p) - k + 1 <= 0
          THEN [raised |-> "UnboundLocalError", returned |-> "", perm |-> <<>>]
        ELSE [raised |-> "", returned |-> "list", perm |-> get_ith_solution(p, i)]

IndexerCallInit ==
    /\ ps \in {Shop(n, k) : n \in 1..MaxOrders, k \in 1..MaxMachines}
    /\ \E i \in -MaxMachines..(get_solution_space_size(ps) + MaxMachines) :
          indexer = [i |-> i, ith |-> NoneNone, seen |-> {}]
    /\ mem = [heap |-> <<>>, cache |-> <<>>]
    /\ last = NoSchedule
    /\ moved = NoSchedule
    /\ snap = [queues |-> <<>>, cache |-> <<>>, cost |-> 0]
    /\ move = NoMove
    /\ call = NoCall
    /\ run = NoRun
    /\ sterling = NoSterling

\* perm = get_ith_solution(ps, i)
IthSolutionCall ==
    /\ indexer.ith = NoneNone
    /\ indexer' = [indexer EXCEPT !.ith = get_ith_solution_call(ps, indexer.i)]
    /\ UNCHANGED <<ps, mem, last, moved, snap, move, call, run, sterling>>

SpecIndexerCall == IndexerCallInit /\ [][IthSolutionCall]_vars

\* C15: a call of get_ith_solution with an index outside [0, N), N the
\* solution-space size, ends with an error: it returns neither an assignment
\* nor None.
C15_OutOfRangeFails ==
    (/\ indexer.ith # NoneNone
     /\ indexer.i < 0 \/ indexer.i >= get_solution_space_size(ps))
    => indexer.ith.raised # ""

----------------------------------------------------------------------------
(* The counting functions with their module state: the list fact that nCr  *)
(* extends and the dictionaries cache of sterling.py and solution_space.py *)
(* that count_part and update_cache fill, over a sequence of calls.        *)

\* s[j] of a Python list: the position in the sequence, 0 for an IndexError
py_index(s, j) ==
    IF 0 <= j /\ j < Len(s) THEN j + 1
    ELSE IF -Len(s) <= j /\ j < 0 THEN Len(s) + j + 1
    ELSE 0

\* while len(fact) <= n: fact.append(fact[-1] * len(fact))
RECURSIVE fact_extend(_, _)
fact_extend(f, n) ==
    IF Len(f) <= n THEN fact_extend(Append(f, f[Len(f)] * Len(f)), n) ELSE f

\* nCr(n, k) on the list f: the list it leaves and the value, or the exception
nCr_call(f, n, k) ==
    the({ IF py_index(f2, n) = 0 \/ py_index(f2, k) = 0 \/ py_index(f2, n - k) = 0
            THEN [fact |-> f2, value |-> 0, raised |-> "IndexError"]
            ELSE [fact |-> f2, raised |-> "",
                  value |-> f2[py_index(f2, n)]
                              \div (f2[py_index(f2, k)] * f2[py_index(f2, n - k)])]
          : f2 \in {fact_extend(f, n)} })

\* key = n,k
cache_key_n(n, k) == <<n, 0>>

cache_key(n, k) == <<n, k>>

\* count_part(n, k) on the module state st = [fact, cache]: the state it
\* leaves and the value it returns, or the exception it raises.  For k < 1 a
\* call whose range(0, n-k+1) is not empty calls count_part(n-1, k-1), whose
\* range has the same length: no call of that chain returns or fills the
\* cache, and the interpreter ends it with a RecursionError.
RECURSIVE count_part_call(_, _, _), count_part_call_loop(_, _, _, _, _)
count_part_call_loop(st, n, k, y, t) ==
    IF y >= n - k + 1
      THEN [fact |-> st.fact, cache |-> (cache_key(n, k) :> t) @@ st.cache,
            value |-> t, raised |-> ""]
      ELSE the({ IF c.raised # "" THEN c
                 ELSE the({ IF b.raised # ""
                              THEN [fact |-> b.fact, cache |-> c.cache,
                                    value |-> 0, raised |-> b.raised]
                              ELSE count_part_call_loop(
                                       [fact |-> b.fact, cache |-> c.cache],
                                       n, k, y + 1, t + c.value * b.value)
                            : b \in {nCr_call(c.fact, n - 1, y)} })
               : c \in {count_part_call(st, n - 1 - y, k - 1)} })

count_part_call(st, n, k) ==
    IF k = 1 THEN [fact |-> st.fact, cache |-> st.cache, value |-> 1, raised |-> ""]
    ELSE IF cache_key(n, k) \in DOMAIN st.cache
      THEN [fact |-> st.fact, cache |-> st.cache,
            value |-> st.cache[cache_key(n, k)], raised |-> ""]
    ELSE IF k < 1 /\ n - k + 1 > 0
      THEN [fact |-> st.fact, cache |-> st.cache, value |-> 0, raised |-> "RecursionError"]
    ELSE count_part_call_loop([fact |-> st.fact, cache |-> st.cache], n, k, 0, 0)

\* update_cache(n, k) on the module state, from e = 0 with no rows: the state
\* it leaves and the rows it stores under the key (n, k)
RECURSIVE update_cache_call_loop(_, _, _, _, _, _)
update_cache_call_loop(st, n, k, e, cumulative_count, rows) ==
    IF e >= k THEN [fact |-> st.fact, cache |-> st.cache, rows |-> rows, raised |-> ""]
    ELSE the({ IF c.raised # ""
                 THEN [fact |-> c.fact, cache |-> c.cache, rows |-> rows, raised |-> c.raised]
                 ELSE update_cache_call_loop(
                          [fact |-> c.fact, cache |-> c.cache], n, k, e + 1,
                          cumulative_count + c.value * get_distinct_permutation_count(k, e),
                          Append(rows, [cum     |-> cumulative_count
                                                      + c.value * get_distinct_permutation_count(k, e),
                                        e       |-> e,
                                        n_parts |-> c.value,
                                        n_perms |-> get_distinct_permutation_count(k, e)]))
               : c \in {count_part_call(st, n, k - e)} })

\* get_solution_space_size(p) on the module state st = [fact, cache, rows]:
\* cache[key][-1][0] after update_cache has run for a key that was missing
get_solution_space_size_call(st, p) ==
    LET n   == order_count(p)
        k   == machine_count(p)
        key == <<n, k>>
    IN  the({ IF u.raised # ""
                THEN [fact |-> u.fact, cache |-> u.cache, rows |-> st.rows,
                      value |-> 0, raised |-> u.raised]
              ELSE IF py_index(u.rows, -1) = 0
                THEN [fact |-> u.fact, cache |-> u.cache, rows |-> (key :> u.rows) @@ st.rows,
                      value |-> 0, raised |-> "IndexError"]
              ELSE [fact |-> u.fact, cache |-> u.cache, rows |-> (key :> u.rows) @@ st.rows,
                    value |-> u.rows[py_index(u.rows, -1)].cum, raised |-> ""]
            : u \in { IF key \in DOMAIN st.rows
                        THEN [fact |-> st.fact, cache |-> st.cache,
                              rows |-> st.rows[key], raised |-> ""]
                        ELSE update_cache_call_loop(st, n, k, 0, 0, <<>>) } })

\* The state after a call: the module state it left, its arguments, its outcome
Called(fn, n, k, r) ==
    [fact |-> r.fact, cache |-> r.cache, rows |-> r.rows,
     fn |-> fn, n |-> n, k |-> k, result |-> r.value, raised |-> r.raised]

\* A process that imports the modules and calls count_part with the
\* arguments its callers pass (n >= 1 items, k >= 1 subsets), and nCr as
\* ith_subset and gen_part call it
SterlingInit ==
    /\ ps = Shop(1, 1)
    /\ sterling = NoSterling
    /\ indexer = NoIndexer
    /\ call = NoCall
    /\ run = NoRun
    /\ mem = [heap |-> <<>>, cache |-> <<>>]
    /\ last = NoSchedule
    /\ moved = NoSchedule
    /\ snap = [queues |-> <<>>, cache |-> <<>>, cost |-> 0]
    /\ move = NoMove

\* nCr(n, k)
CallNCr ==
    /\ \E n \in 0..MaxOrders, k \in 0..MaxOrders :
          /\ k <= n
          /\ \E r \in {nCr_call(sterling.fact, n, k)} :
                sterling' = Called("nCr", n, k, r @@ [cache |-> sterling.cache,
                                                       rows |-> sterling.rows])
    /\ UNCHANGED <<ps, mem, last, moved, snap, move, indexer, call, run>>

\* count_part(n, k)
CallCountPart ==
    /\ \E n \in 1..MaxOrders, k \in 1..MaxMachines :
          \E r \in {count_part_call(sterling, n, k)} :
              sterling' = Called("count_part", n, k, r @@ [rows |-> sterling.rows])
    /\ UNCHANGED <<ps, mem, last, moved, snap, move, indexer, call, run>>

SpecSterling == SterlingInit /\ [][CallNCr \/ CallCountPart]_vars

\* A process that calls the counting functions with arguments outside their
\* domain: count_part with k <= 0 or n < 0, and get_solution_space_size for
\* an instance without machines (an instance has no negative counts)
CountingInit ==
    /\ ps \in {Shop(n, 0) : n \in 0..MaxOrders}
    /\ sterling = NoSterling
    /\ indexer = NoIndexer
    /\ call = NoCall
    /\ run = NoRun
    /\ mem = [heap |-> <<>>, cache |-> <<>>]
    /\ last = NoSchedule
    /\ moved = NoSchedule
    /\ snap = [queues |-> <<>>, cache |-> <<>>, cost |-> 0]
    /\ move = NoMove

\* count_part(n, k) for k <= 0 or n < 0
CallCountPartOutside ==
    /\ \E n \in -2..MaxOrders, k \in -2..MaxMachines :
          /\ k <= 0 \/ n < 0
          /\ \E r \in {count_part_call(sterling, n, k)} :
                sterling' = Called("count_part", n, k, r @@ [rows |-> sterling.rows])
    /\ UNCHANGED <<ps, mem, last, moved, snap, move, indexer, call, run>>

\* get_solution_space_size(ps)
CallGetSolutionSpaceSize ==
    /\ \E r \in {get_solution_space_size_call(sterling, ps)} :
          sterling' = Called("get_solution_space_size",
                             order_count(ps), machine_count(ps), r)
    /\ UNCHANGED <<ps, mem, last, moved, snap, move, indexer, call, run>>

SpecCounting == CountingInit /\ [][CallCountPartOutside \/ CallGetSolutionSpaceSize]_vars

\* C16: a call of a counting function with k <= 0 or n < 0 ends with an
\* error: count_part and the count with empty queues allowed return no number
\* for such arguments.
C16_BadArgumentsFail ==
    (/\ sterling.fn \in {"count_part", "get_solution_space_size"}
     /\ sterling.k <= 0 \/ sterling.n < 0)
    => sterling.raised # ""

\* The Stirling number of the second kind by brute force: the surjections of
\* n items onto k labels, counted up to the k! namings of the subsets
stirling2(n, k) ==
    Cardinality({f \in [1..n -> 1..k] : \A j \in 1..k : \E x \in 1..n : f[x] = j})
        \div fact(k)

\* C11: count_part(n, k) is the Stirling number of the second kind for
\* 1 <= k <= n and 0 for k > n >= 1, k >= 2, and what the cache holds for a
\* key is that number whatever calls filled the cache before.
C11_CountPartIsStirling ==
    /\ (sterling.fn = "count_part" /\ sterling.n >= 1 /\ sterling.k >= 1) =>
          /\ sterling.raised = ""
          /\ sterling.result = stirling2(sterling.n, sterling.k)
          /\ sterling.result = count_part(sterling.n, sterling.k)
          /\ (sterling.k > sterling.n /\ sterling.k >= 2) => sterling.result = 0
    /\ \A key \in DOMAIN sterling.cache :
          (key[1] >= 1 /\ key[2] >= 1) => sterling.cache[key] = stirling2(key[1], key[2])

\* count_part(4, 2) = 7 has been answered from a cache that earlier calls filled
C11_Witness ==
    /\ sterling.fn = "count_part"
    /\ sterling.n = 4
    /\ sterling.k = 2
    /\ sterling.result = 7
    /\ <<3, 3>> \in DOMAIN sterling.cache
    /\ <<1, 2>> \in DOMAIN sterling.cache

----------------------------------------------------------------------------
(* The move selection strategies (moveSelectionStrategy.py).               *)
(* A strategy gets a Schedule and an acceptance predicate; below a         *)
(* schedule is held by value, [queues, cost], and every call works on      *)
(* Schedule objects of its own, built from that value.                     *)

\* What a holder of the Schedule object s reads: its queues and its cost
value(m, s) == [queues |-> queues_of(m, s), cost |-> s.cost]

\* A Schedule object with the queues Q: schedule[i, :] = Q[i], then calc_cost()
schedule_of(p, Q) ==
    LET s == new_schedule(p)
        m == [s.mem EXCEPT !.heap = [a \in DOMAIN s.mem.heap |->
                                        IF a <= Len(Q) THEN Q[a] ELSE <<>>]]
    IN  calc_cost(p, m, s.obj)

\* str.join
RECURSIVE join(_, _)
join(sep, strs) ==
    IF strs = <<>> THEN ""
    ELSE IF Len(strs) = 1 THEN strs[1]
    ELSE strs[1] \o sep \o join(sep, Tail(strs))

\* Schedule.__hash__: the hash of the string that joins the order ids of a
\* queue with '-' and the queues with '|'.  The hash of a string is a
\* function of the string; it is held here as the string itself.
hash(Q) == join("|", [i \in DOMAIN Q |-> join("-", [j \in DOMAIN Q[i] |-> ToString(Q[i][j])])])

\* move.get_moved(schedule), read by value
moved_schedule(p, S, mv) ==
    the({value(r.mem, r.obj) :
            r \in {get_moved(p, o.mem, o.obj, mv) : o \in {schedule_of(p, S.queues)}}})

\* [(move, move.get_moved(schedule)) for move in get_moves(schedule)]
moved_schedules(p, S) ==
    the({[j \in DOMAIN mvs |-> [move |-> mvs[j], moved |-> moved_schedule(p, S, mvs[j])]] :
            mvs \in {get_moves(p, S.queues)}})

\* solution_allow_criteria(moved_schedule).  A predicate is
\*   [kind |-> "improve",  cost]   s.cost < (the current schedule).cost
\*   [kind |-> "nontaboo", taboo]  hash(s) not in taboo_set
\*   [kind |-> "window",   taboo]  hash(s) not in taboo_set[-taboo_len::],
\*                                 which raises: a set has no slices
\* and kind "None" stands for the call without a predicate.
solution_allow_criteria(criteria, S) ==
    CASE criteria.kind = "improve"  -> S.cost < criteria.cost
      [] criteria.kind = "nontaboo" -> hash(S.queues) \notin criteria.taboo
      [] OTHER -> TRUE

\* return (move, moved_schedule)
Returned(pair) == [raised |-> "", move |-> pair.move, moved |-> pair.moved]

\* list index out of range
IndexError == [raised |-> "IndexError", move |-> NoMove, moved |-> NoneSchedule]

\* 'set' object is not subscriptable
TypeError == [raised |-> "TypeError", move |-> NoMove, moved |-> NoneSchedule]

\* First.try_get_move, for moves = get_moves(schedule) with the schedule each gives
First_try_get_move(moves, criteria) ==
    LET allowed == {j \in DOMAIN moves : solution_allow_criteria(criteria, moves[j].moved)}
    IN  IF criteria.kind = "None"
        THEN IF moves = <<>> THEN IndexError ELSE Returned(moves[1])
        ELSE IF allowed = {} THEN NoneNone
        ELSE Returned(moves[CHOOSE j \in allowed : \A j2 \in allowed : j <= j2])

\* Random.try_get_move: every result a shuffle of the moves can give
Random_try_get_move(moves, criteria) ==
    LET allowed == {j \in DOMAIN moves : solution_allow_criteria(criteria, moves[j].moved)}
    IN  IF criteria.kind = "None"
        THEN IF moves = <<>> THEN {IndexError} ELSE {Returned(moves[j]) : j \in DOMAIN moves}
        ELSE IF allowed = {} THEN {NoneNone}
        ELSE {Returned(moves[j]) : j \in allowed}

\* A sort that is not stable: of the cheapest allowed moves, the last
Best_try_get_move_unstable(moves, criteria) ==
    LET allowed == IF criteria.kind = "None" THEN DOMAIN moves
                   ELSE {j \in DOMAIN moves : solution_allow_criteria(criteria, moves[j].moved)}
        last_min(j) == \A j2 \in allowed :
                        \/ moves[j].moved.cost < moves[j2].moved.cost
                        \/ moves[j].moved.cost = moves[j2].moved.cost /\ j >= j2
    IN  IF allowed = {} THEN IndexError
        ELSE Returned(moves[CHOOSE j \in allowed : last_min(j)])

\* Best.try_get_move: sorted(moves, key = cost)[0], and sorted is stable
Best_try_get_move(moves, criteria) ==
    LET allowed == IF criteria.kind = "None" THEN DOMAIN moves
                   ELSE {j \in DOMAIN moves : solution_allow_criteria(criteria, moves[j].moved)}
        first(j) == \A j2 \in allowed :
                        \/ moves[j].moved.cost < moves[j2].moved.cost
                        \/ moves[j].moved.cost = moves[j2].moved.cost /\ j <= j2
    IN  IF allowed = {} THEN IndexError
        ELSE Returned(moves[CHOOSE j \in allowed : first(j)])

\* strategy.try_get_move(schedule, criteria): the results it can give
try_get_move(strategy, p, S, criteria) ==
    UNION { CASE criteria.kind = "window" /\ moves # <<>> -> {TypeError}
              [] strategy = "first"  -> {First_try_get_move(moves, criteria)}
              [] strategy = "random" -> Random_try_get_move(moves, criteria)
              [] strategy = "best"   -> {Best_try_get_move(moves, criteria)}
            : moves \in {moved_schedules(p, S)} }

MoveSelectionStrategies == {"first", "random", "best"}

----------------------------------------------------------------------------
(* One call of try_get_move: any strategy, any schedule of a small         *)
(* instance, with and without a predicate.                                 *)

\* Every schedule of the instance: the orders distributed over the queues
Schedules(p) ==
    {value(o.mem, o.obj) : o \in {schedule_of(p, Q) : Q \in distribute(order_ids(p), machine_count(p))}}

StrategyInit ==
    /\ ps \in {Shop(1, 1), PS_OneMachine, PS_TwoMachines}
    /\ \E strategy \in MoveSelectionStrategies, S \in Schedules(ps) :
          \E criteria \in { [kind |-> "None", cost |-> 0, taboo |-> {}],
                            [kind |-> "improve", cost |-> S.cost, taboo |-> {}],
                            [kind |-> "nontaboo", cost |-> 0,
                             taboo |-> {hash(T.queues) : T \in Schedules(ps)}] } :
              call = [strategy |-> strategy, criteria |-> criteria, schedule |-> S,
                      done |-> FALSE, result |-> NoneNone]
    /\ indexer = NoIndexer
    /\ run = NoRun
    /\ sterling = NoSterling
    /\ mem = [heap |-> <<>>, cache |-> <<>>]
    /\ last = NoSchedule
    /\ moved = NoSchedule
    /\ snap = [queues |-> <<>>, cache |-> <<>>, cost |-> 0]
    /\ move = NoMove

\* move, moved = strategy.try_get_move(schedule, criteria)
TryGetMove ==
    /\ ~call.done
    /\ \E result \in try_get_move(call.strategy, ps, call.schedule, call.criteria) :
          call' = [call EXCEPT !.done = TRUE, !.result = result]
    /\ UNCHANGED <<ps, mem, last, moved, snap, move, indexer, run, sterling>>

StrategyNext == TryGetMove

SpecStrategy == StrategyInit /\ [][StrategyNext]_vars

\* C8: when no move of the neighbourhood gives a schedule that the predicate
\* accepts (the empty neighbourhood and the call without a predicate on an
\* empty neighbourhood included), try_get_move of First, Random and Best
\* returns (None, None) and raises nothing.
C8_NoAcceptableMoveGivesNoneNone ==
    \A moves \in {moved_schedules(ps, call.schedule)} :
        (/\ call.done
         /\ \A j \in DOMAIN moves : ~solution_allow_criteria(call.criteria, moves[j].moved))
        => call.result = NoneNone

\* C13: when some result of the neighbourhood is acceptable, Best.try_get_move
\* returns a pair (move, schedule) of the enumeration whose schedule passes
\* the predicate and costs no more than any acceptable result, and no
\* acceptable result of the same cost comes earlier in the enumeration.
C13_BestReturnsFirstCheapest ==
    \A moves \in {moved_schedules(ps, call.schedule)} :
        (/\ call.done
         /\ call.strategy = "best"
         /\ \E j \in DOMAIN moves : solution_allow_criteria(call.criteria, moves[j].moved))
        => /\ call.result.raised = ""
           /\ \E i \in DOMAIN moves :
                 /\ call.result.move = moves[i].move
                 /\ call.result.moved = moves[i].moved
                 /\ solution_allow_criteria(call.criteria, moves[i].moved)
                 /\ \A j \in DOMAIN moves :
                       solution_allow_criteria(call.criteria, moves[j].moved) =>
                           /\ moves[i].moved.cost <= moves[j].moved.cost
                           /\ moves[j].moved.cost = moves[i].moved.cost => i <= j

\* Best has returned under a predicate that rejects some results, and the
\* cheapest acceptable cost is shared by a result later in the enumeration
C13_Witness ==
    \A moves \in {moved_schedules(ps, call.schedule)} :
        /\ call.done
        /\ call.strategy = "best"
        /\ call.criteria.kind = "improve"
        /\ call.result.raised = ""
        /\ \E j \in DOMAIN moves : ~solution_allow_criteria(call.criteria, moves[j].moved)
        /\ \E j \in DOMAIN moves :
              /\ moves[j].move # call.result.move
              /\ moves[j].moved.cost = call.result.moved.cost
        /\ \E j \in DOMAIN moves :
              /\ solution_allow_criteria(call.criteria, moves[j].moved)
              /\ moves[j].moved.cost > call.result.moved.cost

----------------------------------------------------------------------------
(* The restart move: GenerateNew(Random).get_moved builds a Random         *)
(* constructive heuristic for the instance and asks it for a schedule.     *)

\* count_part_empty_allowed(n, k): the partitions of n items over k queues of
\* which up to k-1 are empty, the sum over e of count_part(n, k-e) * k!/e!
RECURSIVE count_part_empty_allowed_loop(_, _, _)
count_part_empty_allowed_loop(n, k, e) ==
    IF e >= k THEN 0
    ELSE count_part(n, k - e) * (fact(k) \div fact(e)) + count_part_empty_allowed_loop(n, k, e + 1)

count_part_empty_allowed(n, k) == count_part_empty_allowed_loop(n, k, 0)

\* PaintShop.solution_space_partitions
solution_space_partitions(p) == count_part_empty_allowed(order_count(p), machine_count(p))

\* Random.get_schedule for the part_i it drew: the queues are the part_i-th
\* partition of range(n), then calc_cost()
Random_get_schedule(p, part_i) ==
    LET o == schedule_of(p, gen_part(range(order_count(p)), machine_count(p), part_i))
    IN  value(o.mem, o.obj)

\* The move a restart is logged with
GenerateNew == [kind |-> "gnew", a |-> <<>>, b |-> <<>>]

\* GenerateNew.get_moved: every schedule the generator can give, one for each
\* part_i of rng.randint(0, solution_space_partitions), both ends included
GenerateNew_get_moved(p) ==
    {Random_get_schedule(p, part_i) : part_i \in 0..solution_space_partitions(p)}

----------------------------------------------------------------------------
(* The improvement heuristics (heuristics_improvement.py): the run data,   *)
(* the clock, and Basic.run and Basic.run_timed one loop iteration at a    *)
(* time.  The clock time() - t0 is counted in ticks: an iteration of a run *)
(* that is given a time budget takes one or two ticks, and an iteration of *)
(* a run that only records the time takes one.                             *)

\* The largest time budget t_max of a timed run, in clock ticks
MaxTime == 3

\* The ticks an iteration of a timed run can take
Ticks == {1, 2}

\* HeuristicIterationData(time, move, cost)
HeuristicIterationData(time, mv, cost) == [time |-> time, move |-> mv, cost |-> cost]

\* HeuristicRunData(improver, initial)
HeuristicRunData(initial) ==
    [initial    |-> initial,
     best       |-> initial,
     last       |-> initial,
     iterations |-> <<HeuristicIterationData(0, NoMove, initial.cost)>>,
     time       |-> 0]

\* The state of a run besides its run data: which heuristic with which
\* arguments, where it is (pc: "loop", "returned", "raised"), the exception
\* it raised, the statement by which Taboo.run left its loop (exit), the
\* clock time() - t0, and the locals of Taboo
RunState(heuristic, strategy, non_improvement_strategy, max_iterations, taboo_len, t_max, S) ==
    [heuristic |-> heuristic,
     strategy  |-> strategy,
     non_improvement_strategy |-> non_improvement_strategy,
     max_iterations |-> max_iterations,
     taboo_len |-> taboo_len,
     t_max     |-> t_max,
     pc        |-> "loop",
     raised    |-> "",
     exit      |-> "",
     now       |-> 0,
     schedule  |-> S,
     taboo_set |-> {}] @@ HeuristicRunData(S)

\* A predicate that lets every schedule pass
must_improve_any(S) == [kind |-> "None", cost |-> 0, taboo |-> {}]

\* def must_improve(s): return s.cost < run_data.last.cost
must_improve(S) == [kind |-> "improve", cost |-> S.cost, taboo |-> {}]

\* The exception leaves the run
Raise(r, exception) == [r EXCEPT !.pc = "raised", !.raised = exception]

\* break, then run_data.time = time() - t0 and return run_data
Return(r, t) == [r EXCEPT !.pc = "returned", !.now = t, !.time = t]

\* A commit that makes the committed schedule the best one as well
Log_best(r, t, mv, S) ==
    [r EXCEPT !.now = t, !.last = S, !.best = S,
              !.iterations = Append(@, HeuristicIterationData(t, mv, S.cost))]

\* run_data.last = moved and run_data.iterations.append(...)
Log(r, t, mv, S) ==
    [r EXCEPT !.now = t, !.last = S,
              !.iterations = Append(@, HeuristicIterationData(t, mv, S.cost))]

\* One iteration of the loop of Basic.run
Basic_run ==
    /\ run.heuristic = "Basic.run"
    /\ run.pc = "loop"
    /\ \E result \in try_get_move(run.strategy, ps, run.last, must_improve(run.last)) :
          LET move_time == run.now + 1
          IN  run' = IF result.raised # "" THEN Raise(run, result.raised)
                     ELSE IF result.move = NoMove THEN Return(run, move_time)
                     ELSE [Log(run, move_time, result.move, result.moved)
                              EXCEPT !.best = result.moved]
    /\ UNCHANGED <<ps, mem, last, moved, snap, move, indexer, call, sterling>>

\* One iteration of the loop of Basic.run_timed
Basic_run_timed ==
    /\ run.heuristic = "Basic.run_timed"
    /\ run.pc = "loop"
    /\ \E result \in try_get_move(run.strategy, ps, run.last, must_improve(run.last)),
          new \in GenerateNew_get_moved(ps),
          tick \in Ticks :
          LET move_time == run.now + tick
              mv == IF result.move = NoMove THEN GenerateNew ELSE result.move
              S  == IF result.move = NoMove THEN new ELSE result.moved
              r  == Log(run, move_time, mv, S)
          IN  run' = IF result.raised # "" THEN Raise(run, result.raised)
                     ELSE IF move_time > run.t_max THEN Return(run, move_time)
                     ELSE [r EXCEPT !.best = IF S.cost < run.best.cost THEN S ELSE @]
    /\ UNCHANGED <<ps, mem, last, moved, snap, move, indexer, call, sterling>>

BasicInit ==
    /\ ps \in {PS_OneMachine, PS_TwoMachines}
    /\ \E strategy \in MoveSelectionStrategies, S \in Schedules(ps) :
          \/ run = RunState("Basic.run", strategy, "", 0, None, None, S)
          \/ \E t_max \in 1..MaxTime :
                run = RunState("Basic.run_timed", strategy, "", 0, None, t_max, S)
    /\ indexer = NoIndexer
    /\ call = NoCall
    /\ sterling = NoSterling
    /\ mem = [heap |-> <<>>, cache |-> <<>>]
    /\ last = NoSchedule
    /\ moved = NoSchedule
    /\ snap = [queues |-> <<>>, cache |-> <<>>, cost |-> 0]
    /\ move = NoMove

BasicNext == Basic_run \/ Basic_run_timed

SpecBasic == BasicInit /\ [][BasicNext]_vars

C7_BasicRunReturns ==
    (run.heuristic = "Basic.run" /\ run.pc # "loop") =>
        /\ run.pc = "returned"
        /\ \A moves \in {moved_schedules(ps, run.last)} :
              \A j \in DOMAIN moves : moves[j].moved.cost >= run.last.cost

\* C30: the Random constructive heuristic, which the restarts use, gives a
\* feasible schedule for every part_i that rng.randint can return; different
\* indices give different schedules, together all the ways to assign the
\* orders to the queues; and every index, the largest included, is one of the
\* count_part(n, k) indices of gen_part called with k = the machine count.
C30_RandomDrawsEverySchedule ==
    \A drawable \in {0..solution_space_partitions(ps)} :
        /\ \A part_i \in drawable :
              /\ part_i < count_part(order_count(ps), machine_count(ps))
              /\ is_feasible(ps, Random_get_schedule(ps, part_i).queues)
        /\ \A i1, i2 \in drawable :
              i1 # i2 => Random_get_schedule(ps, i1) # Random_get_schedule(ps, i2)
        /\ {Random_get_schedule(ps, part_i).queues : part_i \in drawable}
              = distribute(order_ids(ps), machine_count(ps))


----------------------------------------------------------------------------
(* Taboo.run and Taboo.run_timed, one loop iteration at a time.            *)

\* def criteria_improve(s): return s.cost < schedule.cost
criteria_improve(S) == [kind |-> "improve", cost |-> S.cost, taboo |-> {}]

\* def criteria_nontaboo(schedule): with taboo_len the set is sliced
criteria_nontaboo(taboo_set, taboo_len) ==
    IF taboo_len = None
    THEN [kind |-> "nontaboo", cost |-> 0, taboo |-> taboo_set]
    ELSE [kind |-> "window", cost |-> 0, taboo |-> taboo_set]

\* The move of an iteration: the improvement strategy is asked first, and the
\* non-improvement strategy if that one returned no move
Taboo_try_get_move(r, S, taboo_set, taboo_len) ==
    UNION { IF first.raised # "" \/ first.move # NoMove THEN {first}
            ELSE try_get_move(r.non_improvement_strategy, ps, S,
                              criteria_nontaboo(taboo_set, taboo_len))
            : first \in try_get_move(r.strategy, ps, S, criteria_improve(S)) }

\* The schedule a tabu run is at: the local schedule of Taboo.run,
\* run_data.last of Taboo.run_timed
current(r) == IF r.heuristic = "Taboo.run" THEN r.schedule ELSE r.last

\* One iteration of the loop of Taboo.run, or its end: the states the run
\* can be in next.  print_iteration is called with seven arguments for its
\* eight parameters.
Taboo_run_next(r) ==
    LET taboo == r.taboo_set \cup {hash(r.schedule.queues)}
        r1    == [r EXCEPT !.taboo_set = taboo, !.now = r.now + 1]
        end   == [r1 EXCEPT !.pc = "returned", !.last = r1.schedule]
    IN  IF ~(Len(r.iterations) < r.max_iterations)
        THEN {[r EXCEPT !.pc = "returned", !.last = r.schedule, !.exit = "while"]}
        ELSE { IF result.raised # "" THEN Raise(r1, result.raised)
               ELSE IF result.move = NoMove THEN [end EXCEPT !.exit = "Optimum reached."]
               ELSE IF r.t_max # None /\ r1.now > r.t_max
                 THEN [end EXCEPT !.exit = "Time limit reached."]
               ELSE Raise([r1 EXCEPT !.schedule = result.moved], "TypeError")
               : result \in Taboo_try_get_move(r, r.schedule, taboo, r.taboo_len) }

Taboo_run ==
    /\ run.heuristic = "Taboo.run"
    /\ run.pc = "loop"
    /\ run' \in Taboo_run_next(run)
    /\ UNCHANGED <<ps, mem, last, moved, snap, move, indexer, call, sterling>>

\* The calls Taboo(improvement_strategy, non_improvement_strategy,
\* max_iterations, taboo_len).run(S, taboo_set, t0, t_max) that differ in what
\* the run data does not hold: the taboo set passed in (empty, or the hashes of
\* the schedules an earlier search has been at), the time since t0, and t_max
Taboo_run_calls(improvement_strategy, non_improvement_strategy, max_iterations, taboo_len, S) ==
    { [RunState("Taboo.run", improvement_strategy, non_improvement_strategy,
                max_iterations, taboo_len, t_max, S)
          EXCEPT !.now = elapsed, !.taboo_set = taboo_set]
      : t_max \in {None, 1}, elapsed \in {0, 1},
        taboo_set \in {{}, {hash(T.queues) : T \in Schedules(ps)}} }

\* One iteration of the loop of Taboo.run_timed, or its end
Taboo_run_timed ==
    /\ run.heuristic = "Taboo.run_timed"
    /\ run.pc = "loop"
    /\ LET taboo == run.taboo_set \cup {hash(run.last.queues)}
           r1    == [run EXCEPT !.taboo_set = taboo]
       IN  IF ~(run.iterations[Len(run.iterations)].time < run.t_max)
           THEN run' = Return(run, run.now)
           ELSE \E result \in Taboo_try_get_move(run, run.last, taboo, None),
                   tick \in Ticks :
                   LET move_time == run.now + tick
                       S == result.moved
                   IN  run' = IF result.raised # "" THEN Raise(r1, result.raised)
                              ELSE IF result.move = NoMove THEN Return(r1, move_time)
                              ELSE IF move_time > run.t_max THEN Return(r1, move_time)
                              ELSE [Log(r1, move_time, result.move, S)
                                       EXCEPT !.best = IF S.cost < run.best.cost THEN S ELSE @]
    /\ UNCHANGED <<ps, mem, last, moved, snap, move, indexer, call, sterling>>

TabooInit ==
    /\ ps \in {PS_OneMachine, PS_TwoMachines}
    /\ \E improvement_strategy \in MoveSelectionStrategies,
          non_improvement_strategy \in MoveSelectionStrategies,
          S \in Schedules(ps) :
          \/ \E t_max \in 1..MaxTime :
                run = RunState("Taboo.run_timed", improvement_strategy,
                               non_improvement_strategy, 0, None, t_max, S)
          \/ \E max_iterations \in {1, 2}, taboo_len \in {None, 1} :
                run \in Taboo_run_calls(improvement_strategy, non_improvement_strategy,
                                        max_iterations, taboo_len, S)
    /\ indexer = NoIndexer
    /\ call = NoCall
    /\ sterling = NoSterling
    /\ mem = [heap |-> <<>>, cache |-> <<>>]
    /\ last = NoSchedule
    /\ moved = NoSchedule
    /\ snap = [queues |-> <<>>, cache |-> <<>>, cost |-> 0]
    /\ move = NoMove

TabooNext == Taboo_run \/ Taboo_run_timed

SpecTaboo == TabooInit /\ [][TabooNext]_vars

\* C5: the schedule a tabu run commits at an iteration, whichever of the two
\* strategies chose it, has a hash that is not in the tabu set of that
\* iteration; the set holds every schedule the run has been at, so no
\* schedule becomes the current one twice.
C5_CommittedNeverTabu ==
    [][ current(run') # current(run)
            => hash(current(run').queues) \notin run'.taboo_set ]_vars

\* The HeuristicRunData a run returns; the improver is the Taboo object
\* with its four attributes
run_data(r) ==
    [improver   |-> <<r.strategy, r.non_improvement_strategy, r.max_iterations, r.taboo_len>>,
     initial    |-> r.initial,
     best       |-> r.best,
     last       |-> r.last,
     iterations |-> r.iterations,
     time       |-> r.time]

\* The states in which a run of Taboo.run that is at r can return
RECURSIVE Taboo_run_returns(_)
Taboo_run_returns(r) ==
    IF r.pc = "returned" THEN {r}
    ELSE IF r.pc = "raised" THEN {}
    ELSE UNION {Taboo_run_returns(r2) : r2 \in Taboo_run_next(r)}

\* C17: the run data a returned run of Taboo.run gives tells how the run
\* ended: no run of the same Taboo object on the same schedule returns the
\* same run data after leaving its loop by another statement.
C17_RunDataTellsTheExit ==
    (run.heuristic = "Taboo.run" /\ run.pc = "returned") =>
        \A r0 \in Taboo_run_calls(run.strategy, run.non_improvement_strategy,
                                  run.max_iterations, run.taboo_len, run.initial) :
            \A other \in Taboo_run_returns(r0) :
                run_data(other) = run_data(run) => other.exit = run.exit

----------------------------------------------------------------------------
(* Taboo.run called again and again without a taboo_set argument: the      *)
(* default value set() is made once, when the def statement runs, and every *)
(* such call works on that one object.                                      *)

\* The number of calls of Taboo.run on one Taboo object
MaxCalls == 2

\* math.inf, the default of max_iterations: above the length of every list
\* of iterations a run builds here
inf == 1000

\* taboo.run(schedule) once more, with the run's initial schedule: the
\* parameter taboo_set is bound to the default object as the calls before
\* left it, t_max to None
Taboo_run_again ==
    /\ run.heuristic = "Taboo.run"
    /\ run.pc \in {"returned", "raised"}
    /\ run.calls < MaxCalls
    /\ run' = [RunState("Taboo.run", run.strategy, run.non_improvement_strategy,
                        run.max_iterations, run.taboo_len, None, run.initial)
                  EXCEPT !.taboo_set = run.taboo_set, !.now = run.now]
               @@ [calls |-> run.calls + 1]
    /\ UNCHANGED <<ps, mem, last, moved, snap, move, indexer, call, sterling>>

SpecTabooDefault ==
    /\ ps \in {PS_OneMachine, PS_TwoMachines}
    /\ \E improvement_strategy \in MoveSelectionStrategies,
          non_improvement_strategy \in MoveSelectionStrategies,
          S \in Schedules(ps), max_iterations \in {1, 2, inf}, taboo_len \in {None, 1} :
          run = RunState("Taboo.run", improvement_strategy, non_improvement_strategy,
                         max_iterations, taboo_len, None, S) @@ [calls |-> 1]
    /\ indexer = NoIndexer
    /\ call = NoCall
    /\ sterling = NoSterling
    /\ mem = [heap |-> <<>>, cache |-> <<>>]
    /\ last = NoSchedule
    /\ moved = NoSchedule
    /\ snap = [queues |-> <<>>, cache |-> <<>>, cost |-> 0]
    /\ move = NoMove
    /\ [][Taboo_run \/ Taboo_run_again]_vars

\* C24: the tabu set belongs to the run: every call of Taboo.run without a
\* taboo_set argument starts with an empty set, and what a second run from the
\* same initial schedule with the same strategies can do is what it could do
\* with an empty set: no hash of the first run excludes a move.
C24_TabuSetOwnedByRun ==
    (run.pc = "loop" /\ Len(run.iterations) = 1) =>
        /\ run.taboo_set = {}
        /\ {run_data(r) : r \in Taboo_run_next(run)}
             = {run_data(r) : r \in Taboo_run_next([run EXCEPT !.taboo_set = {}])}

\* C25: with taboo_len = L the predicate of the non-improving search rejects
\* a candidate exactly when its hash is among the L hashes recorded last; for
\* L = 1 that is the hash of the schedule the run is at, recorded at the start
\* of the iteration, so the search made when no improving move was found
\* gives what it gives with that one hash tabu.
C25_WindowOfRecentHashes ==
    ( /\ run.heuristic = "Taboo.run" /\ run.pc = "loop" /\ run.taboo_len = 1
      /\ Len(run.iterations) < run.max_iterations
      /\ \A first \in try_get_move(run.strategy, ps, run.schedule,
                                   criteria_improve(run.schedule)) :
            first.raised = "" /\ first.move = NoMove ) =>
        \A recorded \in {hash(run.schedule.queues)} :
            try_get_move(run.non_improvement_strategy, ps, run.schedule,
                         criteria_nontaboo(run.taboo_set \cup {recorded}, run.taboo_len))
              = try_get_move(run.non_improvement_strategy, ps, run.schedule,
                             [kind |-> "nontaboo", cost |-> 0, taboo |-> {recorded}])

\* The moves a run has committed: the iteration records after the initial one
commits(r) == Len(r.iterations) - 1

\* C26: a run of Taboo.run with max_iterations = m never commits more than m
\* moves, and a run that has ended without "Optimum reached." or "Time limit
\* reached." has left its loop by the iteration limit after exactly m commits.
C26_StopsAfterMaxIterationsCommits ==
    run.heuristic = "Taboo.run" =>
        /\ commits(run) <= run.max_iterations
        /\ (run.pc \in {"returned", "raised"}
               /\ run.exit \notin {"Optimum reached.", "Time limit reached."}) =>
              /\ run.pc = "returned"
              /\ run.exit = "while"
              /\ commits(run) = run.max_iterations

\* C29: a run of Taboo.run with an unbounded tabu set, max_iterations =
\* infinity and no time budget ends, after finitely many commits, by returning
\* with "Optimum reached.": it neither ends in another way nor commits a
\* schedule it has been at before.
C29_UnboundedRunReachesOptimum ==
    (run.heuristic = "Taboo.run" /\ run.max_iterations = inf
        /\ run.taboo_len = None /\ run.t_max = None) =>
        /\ run.pc # "raised"
        /\ run.pc = "returned" => run.exit = "Optimum reached."
        /\ run.schedule # run.initial => hash(run.schedule.queues) \notin run.taboo_set





----------------------------------------------------------------------------
(* Simulated annealing (class Annealing): run_timed one loop iteration at  *)
(* a time, and run.  The temperature 1 - t_move/t_max is positive exactly  *)
(* when t_move < t_max; rng.random() < np.exp(...) is a draw that can go   *)
(* either way when the cost rises, and is true when the cost is the same   *)
(* (the draw is below 1 = exp(0)).                                         *)

\* The run state of Annealing: the locals moved and t_move of the iteration,
\* and whether the acceptance test of the iteration passed
AnnealingState(heuristic, t_max, S) ==
    RunState(heuristic, "random", "", 0, None, t_max, S)
        @@ [moved |-> NoneSchedule, t_move |-> 0, accepted |-> FALSE]

\* solution_allow_criteria = None, the default of try_get_move
criteria_None == [kind |-> "None", cost |-> 0, taboo |-> {}]

\* An iteration that makes the candidate the current schedule before the test
Annealing_iteration_moves_first(r, result, t_move, draw) ==
    LET cost_delta == result.moved.cost - r.last.cost
        r1 == [r EXCEPT !.moved = result.moved, !.t_move = t_move, !.accepted = FALSE]
    IN  IF t_move >= r.t_max THEN Return(r1, t_move)
        ELSE IF cost_delta < 0 \/ cost_delta = 0 \/ draw
          THEN [Log(r1, t_move, result.move, result.moved)
                  EXCEPT !.accepted = TRUE,
                         !.best = IF result.moved.cost < r.best.cost THEN result.moved ELSE @]
        ELSE [r1 EXCEPT !.now = t_move, !.last = result.moved]

\* The iteration of Annealing.run_timed from the temperature on, for the
\* candidate drawn, the time t_move and the outcome of rng.random() < exp(...)
Annealing_iteration(r, result, t_move, draw) ==
    LET cost_delta == result.moved.cost - r.last.cost
        r1 == [r EXCEPT !.moved = result.moved, !.t_move = t_move, !.accepted = FALSE]
    IN  IF t_move >= r.t_max THEN Return(r1, t_move)
        ELSE IF cost_delta < 0 \/ cost_delta = 0 \/ draw
          THEN [Log(r1, t_move, result.move, result.moved)
                  EXCEPT !.accepted = TRUE,
                         !.best = IF result.moved.cost < r.best.cost THEN result.moved ELSE @]
        ELSE [r1 EXCEPT !.now = t_move]

\* One iteration of the loop of Annealing.run_timed
Annealing_run_timed ==
    /\ run.heuristic = "Annealing.run_timed"
    /\ run.pc = "loop"
    /\ \E result \in try_get_move("random", ps, run.last, criteria_None),
          tick \in Ticks,
          draw \in BOOLEAN :
          run' = IF result.raised # "" THEN Raise(run, result.raised)
                 ELSE Annealing_iteration(run, result, run.now + tick, draw)
    /\ UNCHANGED <<ps, mem, last, moved, snap, move, indexer, call, sterling>>

\* Annealing.run: __init__ sets delta_factor only, so the first statement
\* after the run data is built, "if self.iterations == 'time'", raises
Annealing_run ==
    /\ run.heuristic = "Annealing.run"
    /\ run.pc = "loop"
    /\ run' = Raise(run, "AttributeError")
    /\ UNCHANGED <<ps, mem, last, moved, snap, move, indexer, call, sterling>>

AnnealingInit ==
    /\ ps \in {PS_OneMachine, PS_TwoMachines}
    /\ \E S \in Schedules(ps) :
          \/ \E t_max \in 1..MaxTime : run = AnnealingState("Annealing.run_timed", t_max, S)
          \/ run = AnnealingState("Annealing.run", None, S)
    /\ indexer = NoIndexer
    /\ call = NoCall
    /\ sterling = NoSterling
    /\ mem = [heap |-> <<>>, cache |-> <<>>]
    /\ last = NoSchedule
    /\ moved = NoSchedule
    /\ snap = [queues |-> <<>>, cache |-> <<>>, cost |-> 0]
    /\ move = NoMove

AnnealingNext == Annealing_run_timed \/ Annealing_run

SpecAnnealing == AnnealingInit /\ [][AnnealingNext]_vars

\* C12: an annealing iteration whose candidate costs less than the current
\* schedule makes the candidate the current schedule, whatever the
\* temperature and the draw.
C12_ImprovingAlwaysAccepted ==
    [][ (run'.moved # run.moved \/ run'.t_move # run.t_move)
          /\ run'.moved.cost < run.last.cost
            => run'.last = run'.moved ]_vars

\* C27: an annealing iteration whose candidate is rejected changes nothing:
\* the current schedule, the best schedule and the recorded iterations are
\* what they were before the candidate was drawn.
C27_RejectedChangesNothing ==
    [][ (run.pc = "loop" /\ run'.pc = "loop" /\ run'.t_move # run.t_move /\ ~run'.accepted)
            => /\ run'.last = run.last
               /\ run'.best = run.best
               /\ run'.iterations = run.iterations ]_vars

\* A candidate that costs more than the current schedule has been rejected,
\* in a run that had committed a move before and whose best schedule is an
\* earlier one
C27_Witness ==
    /\ run.heuristic = "Annealing.run_timed"
    /\ run.pc = "loop"
    /\ run.t_move > 0
    /\ ~run.accepted
    /\ run.moved.cost > run.last.cost
    /\ Len(run.iterations) > 1
    /\ run.best # run.last

\* The wall-clock run is in its loop only while the temperature
\* 1 - t_move/t_max of its last draw was positive, and has returned at a draw
\* whose temperature was not
C28_TimedReturnsWhenCold ==
    run.heuristic = "Annealing.run_timed" =>
        /\ run.pc = "loop" => run.t_move < run.t_max /\ run.now < run.t_max
        /\ run.pc = "returned" => run.t_move >= run.t_max /\ run.time = run.t_move
        /\ run.pc # "raised"

\* C28: an annealing run ends by returning when the temperature reaches or
\* crosses zero: the wall-clock run at the first draw whose temperature is
\* not positive, the iteration-driven run after its last draw; no run ends
\* in another way.
C28_AnnealingReturnsWhenCold ==
    /\ C28_TimedReturnsWhenCold
    /\ run.heuristic = "Annealing.run" => run.pc \in {"loop", "returned"}



----------------------------------------------------------------------------
(* The three controllers side by side: a run of Basic, of Taboo or of      *)
(* Annealing, as the experiments start them.                               *)

SpecControllers ==
    /\ BasicInit \/ TabooInit \/ AnnealingInit
    /\ [][BasicNext \/ TabooNext \/ AnnealingNext]_vars

\* C14: in a run of any controller the best schedule of the run data costs
\* the minimum of the costs the iterations record (the initial one included),
\* it starts as the initial schedule, and a step gives it no other value than
\* the schedule that step makes the current one.
C14_BestIsCheapestRecorded ==
    /\ run.best = run.initial
    /\ [](/\ \A j \in DOMAIN run.iterations : run.best.cost <= run.iterations[j].cost
          /\ \E j \in DOMAIN run.iterations : run.best.cost = run.iterations[j].cost)
    /\ [][run'.best # run.best => run'.best = current(run')]_vars

\* A run has committed a cheaper schedule and then a dearer one: its best
\* schedule is neither the initial nor the current one
C14_Witness ==
    /\ Len(run.iterations) >= 3
    /\ run.best # run.initial
    /\ run.best # current(run)
    /\ run.best.cost < run.initial.cost
    /\ run.best.cost < current(run).cost

====
